---- MODULE Spec2Model ----
(***************************************************************************)
(* LedgerLite: an append-only transaction ledger, the state reconstructed  *)
(* from it, the primary-key / unique indexes kept beside it, and the query *)
(* executor that drives both.                                              *)
(*                                                                         *)
(* Python values are modelled as tagged records so that int, float, str    *)
(* and None stay distinguishable: a float carries twice its value in n     *)
(* (so 1.5 is n = 3), an int carries its value, a str carries s.           *)
(* The timestamp field of a ledger entry is wall-clock text that no        *)
(* operation reads back; it is left out of the entry records.              *)
(***************************************************************************)
EXTENDS Integers, Sequences, FiniteSets, TLC

\* ------------------------------------------------------------------ bounds
MaxLedger == 3
MaxFile == 3
MaxSessions == 2

\* ------------------------------------------------------------------ values
NULL == [ty |-> "null", n |-> 0, s |-> ""]
IntV(i) == [ty |-> "int", n |-> i, s |-> ""]
FloatV(h) == [ty |-> "float", n |-> h, s |-> ""]
StrV(x) == [ty |-> "str", n |-> 0, s |-> x]

IsNum(v) == v.ty \in {"int", "float"}

\* The number a numeric value stands for, in halves.
Halves(v) == IF v.ty = "int" THEN 2 * v.n ELSE v.n

\* Python's == on scalars: 1 == 1.0, "1" != 1, None == None only.
PyEq(a, b) ==
    IF IsNum(a) /\ IsNum(b) THEN Halves(a) = Halves(b) ELSE a = b

\* Python's ordering: defined between numbers and between strings; a mixed
\* pair raises TypeError.
Comparable(a, b) == (IsNum(a) /\ IsNum(b)) \/ (a.ty = "str" /\ b.ty = "str")

StrRank(x) ==
    CASE x = "1" -> 1 [] x = "1.0" -> 2 [] x = "1.5" -> 3 [] x = "2" -> 4
      [] x = "2.0" -> 5 [] x = "x" -> 6 [] x = "y" -> 7 [] OTHER -> 0

PyLess(a, b) ==
    IF IsNum(a) THEN Halves(a) < Halves(b) ELSE StrRank(a.s) < StrRank(b.s)

\* str(v) for the numbers of the model.
NumText(v) ==
    IF v.ty = "int"
    THEN (CASE v.n = 0 -> "0" [] v.n = 1 -> "1" [] v.n = 2 -> "2" [] OTHER -> "3")
    ELSE (CASE v.n = 0 -> "0.0" [] v.n = 1 -> "0.5" [] v.n = 2 -> "1.0"
            [] v.n = 3 -> "1.5" [] v.n = 4 -> "2.0" [] OTHER -> "2.5")

\* The strings int() accepts, and float() accepts.
IntTexts == {"0", "1", "2", "3"}
FloatTexts == IntTexts \cup {"0.0", "0.5", "1.0", "1.5", "2.0", "2.5"}

TextHalves(x) ==
    CASE x \in {"0", "0.0"} -> 0 [] x = "0.5" -> 1 [] x \in {"1", "1.0"} -> 2
      [] x = "1.5" -> 3 [] x \in {"2", "2.0"} -> 4 [] x = "2.5" -> 5 [] OTHER -> 6

\* ------------------------------------------------------------------- types
DataTypes == {"INT", "TEXT", "FLOAT", "BOOLEAN", "TIMESTAMP"}

Column(name, dt, pk, uq) ==
    [name |-> name, data_type |-> dt, is_primary_key |-> pk, is_unique |-> uq]

ColumnNames(table) == {table.columns[i].name : i \in 1..Len(table.columns)}

get_primary_key_column(table) ==
    LET i == CHOOSE i \in 1..Len(table.columns) :
                 /\ table.columns[i].is_primary_key
                 /\ \A j \in 1..(i - 1) : ~table.columns[j].is_primary_key
    IN table.columns[i]

\* Optional values: None is the empty sequence, a present value a 1-tuple.
None == <<>>
Some(x) == <<x>>
IsNone(o) == o = <<>>

get_column(table, name) ==
    IF \E i \in 1..Len(table.columns) : table.columns[i].name = name
    THEN LET i == CHOOSE i \in 1..Len(table.columns) :
                      /\ table.columns[i].name = name
                      /\ \A j \in 1..(i - 1) : table.columns[j].name # name
         IN Some(table.columns[i])
    ELSE None

\* dict.get(key): None when the key is absent.
RowGet(row, c) == IF c \in DOMAIN row THEN row[c] ELSE NULL

\* ------------------------------------------------------------------- utils
validate_type(value, dt) ==
    IF value.ty = "null" THEN TRUE
    ELSE CASE dt = "INT" -> value.ty = "int"
           [] dt = "TEXT" -> value.ty = "str"
           [] dt = "FLOAT" -> value.ty \in {"int", "float"}
           [] dt = "BOOLEAN" -> FALSE
           [] dt = "TIMESTAMP" -> value.ty = "str"
           [] OTHER -> FALSE

\* convert_value: [ok, v]; ok = FALSE is the ValueError.
convert_value(value, dt) ==
    IF value.ty = "null" THEN [ok |-> TRUE, v |-> NULL]
    ELSE CASE dt = "INT" ->
                (CASE value.ty = "int" -> [ok |-> TRUE, v |-> value]
                   [] value.ty = "float" -> [ok |-> TRUE, v |-> IntV(value.n \div 2)]
                   [] OTHER ->
                        IF value.s \in IntTexts
                        THEN [ok |-> TRUE, v |-> IntV(TextHalves(value.s) \div 2)]
                        ELSE [ok |-> FALSE, v |-> value])
           [] dt = "FLOAT" ->
                (CASE value.ty = "int" -> [ok |-> TRUE, v |-> FloatV(2 * value.n)]
                   [] value.ty = "float" -> [ok |-> TRUE, v |-> value]
                   [] OTHER ->
                        IF value.s \in FloatTexts
                        THEN [ok |-> TRUE, v |-> FloatV(TextHalves(value.s))]
                        ELSE [ok |-> FALSE, v |-> value])
           [] dt \in {"TEXT", "TIMESTAMP"} ->
                IF value.ty = "str" THEN [ok |-> TRUE, v |-> value]
                ELSE [ok |-> TRUE, v |-> StrV(NumText(value))]
           [] OTHER -> [ok |-> TRUE, v |-> value]

\* build_row_dict, once the arity is known to match.
build_row_dict(values, table) ==
    [c \in ColumnNames(table) |->
        LET i == CHOOSE i \in 1..Len(table.columns) : table.columns[i].name = c
        IN convert_value(values[i], table.columns[i].data_type).v]

build_row_dict_ok(values, table) ==
    /\ Len(values) = Len(table.columns)
    /\ \A i \in 1..Len(values) :
           convert_value(values[i], table.columns[i].data_type).ok

validate_row(row, table) ==
    \A i \in 1..Len(table.columns) :
        LET col == table.columns[i] IN
        /\ col.name \in DOMAIN row
        /\ validate_type(row[col.name], col.data_type)
        /\ ~(col.is_primary_key /\ row[col.name].ty = "null")

\* ------------------------------------------------------------ ledger store
Operations == {"INSERT", "UPDATE", "DELETE"}

\* A line of the ledger file: an entry (LedgerEntry.to_dict), a blank line,
\* a line json.loads rejects, or a JSON object without the keys of an entry.
EntryLine(id, t, op, old, new) ==
    [kind |-> "entry", transaction_id |-> id, table_name |-> t,
     operation |-> op, old_value |-> old, new_value |-> new]
BlankLine ==
    [kind |-> "blank", transaction_id |-> 0, table_name |-> "",
     operation |-> "", old_value |-> <<>>, new_value |-> <<>>]
BadLine ==
    [kind |-> "bad", transaction_id |-> 0, table_name |-> "",
     operation |-> "", old_value |-> <<>>, new_value |-> <<>>]
IncompleteLine ==
    [kind |-> "incomplete", transaction_id |-> 0, table_name |-> "",
     operation |-> "", old_value |-> <<>>, new_value |-> <<>>]

Max(a, b) == IF a >= b THEN a ELSE b

RECURSIVE LoadFrom(_, _, _)
LoadFrom(file, i, max_id) ==
    IF i > Len(file) THEN max_id
    ELSE IF file[i].kind = "blank" THEN LoadFrom(file, i + 1, max_id)
    ELSE IF file[i].kind = "bad" THEN max_id
    ELSE LoadFrom(file, i + 1, Max(max_id, file[i].transaction_id))

\* The counter taken from the last entry of the file instead of the largest id.
LoadLastId(exists, file) ==
    LET entries == SelectSeq(file, LAMBDA l : l.kind = "entry")
    IN IF Len(entries) = 0 THEN 0 ELSE entries[Len(entries)].transaction_id

\* The counter left at 0 whatever the file holds.
LoadNothing(exists, file) == 0

\* _load_transaction_counter; exists = FALSE is the missing file.
_load_transaction_counter(exists, file) ==
    IF ~exists THEN 0 ELSE LoadFrom(file, 1, 0)

\* read_all: [ok, err, entries]; ok = FALSE is the exception that leaves the
\* loop at the first line that is not an entry: the IOError json.loads's
\* failure is turned into, or the KeyError of LedgerEntry.from_dict.
read_all(exists, file) ==
    IF ~exists THEN [ok |-> TRUE, err |-> "", entries |-> <<>>]
    ELSE IF \E i \in 1..Len(file) : file[i].kind \in {"bad", "incomplete"}
         THEN LET i == CHOOSE i \in 1..Len(file) :
                           /\ file[i].kind \in {"bad", "incomplete"}
                           /\ \A j \in 1..(i - 1) : file[j].kind \notin {"bad", "incomplete"}
              IN [ok |-> FALSE,
                  err |-> IF file[i].kind = "bad" THEN "IOError" ELSE "KeyError",
                  entries |-> <<>>]
         ELSE [ok |-> TRUE, err |-> "",
               entries |-> SelectSeq(file, LAMBDA l : l.kind = "entry")]

\* An insertion-ordered dict as a sequence of [k, v] slots.
DictHas(d, k) == \E i \in 1..Len(d) : PyEq(d[i].k, k)
DictSet(d, k, v) ==
    IF DictHas(d, k)
    THEN [i \in 1..Len(d) |-> IF PyEq(d[i].k, k) THEN [k |-> d[i].k, v |-> v] ELSE d[i]]
    ELSE Append(d, [k |-> k, v |-> v])
DictDel(d, k) == SelectSeq(d, LAMBDA slot : ~PyEq(slot.k, k))
DictValues(d) == [i \in 1..Len(d) |-> d[i].v]

\* ReplayEntry without its table filter: every entry is replayed into every table.
ReplayEntryAnyTable(current_rows, entry, table_name, primary_key_column) ==
    IF entry.operation \in {"INSERT", "UPDATE"} THEN
        IF IsNone(entry.new_value) THEN current_rows
        ELSE LET primary_key == RowGet(entry.new_value[1], primary_key_column) IN
             IF primary_key # NULL
             THEN DictSet(current_rows, primary_key, entry.new_value[1])
             ELSE current_rows
    ELSE
        IF IsNone(entry.old_value) THEN current_rows
        ELSE LET primary_key == RowGet(entry.old_value[1], primary_key_column) IN
             IF primary_key # NULL /\ DictHas(current_rows, primary_key)
             THEN DictDel(current_rows, primary_key)
             ELSE current_rows

ReplayEntry(current_rows, entry, table_name, primary_key_column) ==
    IF entry.table_name # table_name THEN current_rows
    ELSE IF entry.operation \in {"INSERT", "UPDATE"} THEN
        IF IsNone(entry.new_value) THEN current_rows
        ELSE LET primary_key == RowGet(entry.new_value[1], primary_key_column) IN
             IF primary_key # NULL
             THEN DictSet(current_rows, primary_key, entry.new_value[1])
             ELSE current_rows
    ELSE
        IF IsNone(entry.old_value) THEN current_rows
        ELSE LET primary_key == RowGet(entry.old_value[1], primary_key_column) IN
             IF primary_key # NULL /\ DictHas(current_rows, primary_key)
             THEN DictDel(current_rows, primary_key)
             ELSE current_rows

RECURSIVE ReplayFrom(_, _, _, _, _)
ReplayFrom(entries, i, current_rows, table_name, primary_key_column) ==
    IF i > Len(entries) THEN current_rows
    ELSE ReplayFrom(entries, i + 1,
                    ReplayEntry(current_rows, entries[i], table_name, primary_key_column),
                    table_name, primary_key_column)

\* reconstruct_state_with_primary_key over the entries read_all returned.
reconstruct_state_with_primary_key(entries, table_name, primary_key_column) ==
    DictValues(ReplayFrom(entries, 1, <<>>, table_name, primary_key_column))

\* ----------------------------------------------------------- index manager
\* A dict keyed by Python values, as a function; keys meet by PyEq.
EmptyMap == <<>>
MapHas(m, k) == \E x \in DOMAIN m : PyEq(x, k)
MapPut(m, k, v) ==
    IF MapHas(m, k)
    THEN [x \in DOMAIN m |-> IF PyEq(x, k) THEN v ELSE m[x]]
    ELSE [x \in DOMAIN m \cup {k} |-> IF x = k THEN v ELSE m[x]]
MapDel(m, k) == [x \in {y \in DOMAIN m : ~PyEq(y, k)} |-> m[x]]

\* The index manager's two dicts: ix.pk is _primary_key_indexes,
\* ix.uq is _unique_indexes.
UniqueCols(table) ==
    {table.columns[i].name : i \in {j \in 1..Len(table.columns) :
        table.columns[j].is_unique /\ ~table.columns[j].is_primary_key}}

get_primary_key_index(ix, table_name) ==
    IF table_name \in DOMAIN ix.pk THEN Some(ix.pk[table_name]) ELSE None

get_unique_indexes(ix, table_name) ==
    IF table_name \in DOMAIN ix.uq THEN Some(ix.uq[table_name]) ELSE None

TablePk(ix, name) == IF name \in DOMAIN ix.pk THEN ix.pk[name] ELSE EmptyMap
TableUq(ix, name) == IF name \in DOMAIN ix.uq THEN ix.uq[name] ELSE EmptyMap
ColMap(uqT, c) == IF c \in DOMAIN uqT THEN uqT[c] ELSE EmptyMap
SetTable(d, name, m) == [x \in DOMAIN d \cup {name} |-> IF x = name THEN m ELSE d[x]]

\* add_row that files a row under the NULL of its unique columns too.
AddRowIndexingNull(ix, table, row) ==
    LET name == table.name
        pkv == RowGet(row, get_primary_key_column(table).name)
        pkT == TablePk(ix, name)
        uqT == TableUq(ix, name)
        pkT2 == IF pkv # NULL THEN MapPut(pkT, pkv, row) ELSE pkT
        uqT2 == [c \in DOMAIN uqT \cup UniqueCols(table) |->
                    IF c \in UniqueCols(table)
                    THEN MapPut(ColMap(uqT, c), RowGet(row, c), row)
                    ELSE uqT[c]]
    IN [pk |-> SetTable(ix.pk, name, pkT2), uq |-> SetTable(ix.uq, name, uqT2)]

add_row(ix, table, row) ==
    LET name == table.name
        pkv == RowGet(row, get_primary_key_column(table).name)
        pkT == TablePk(ix, name)
        uqT == TableUq(ix, name)
        pkT2 == IF pkv # NULL THEN MapPut(pkT, pkv, row) ELSE pkT
        uqT2 == [c \in DOMAIN uqT \cup UniqueCols(table) |->
                    IF c \in UniqueCols(table)
                    THEN IF RowGet(row, c) # NULL
                         THEN MapPut(ColMap(uqT, c), RowGet(row, c), row)
                         ELSE ColMap(uqT, c)
                    ELSE uqT[c]]
    IN [pk |-> SetTable(ix.pk, name, pkT2), uq |-> SetTable(ix.uq, name, uqT2)]

update_row(ix, table, old_row, new_row) ==
    LET name == table.name
        pkc == get_primary_key_column(table).name
        old_pk == RowGet(old_row, pkc)
        new_pk == RowGet(new_row, pkc)
        pk1 == IF old_pk # NULL /\ MapHas(TablePk(ix, name), old_pk)
               THEN SetTable(ix.pk, name, MapDel(ix.pk[name], old_pk))
               ELSE ix.pk
        pk2 == IF new_pk # NULL
               THEN SetTable(pk1, name,
                             MapPut(IF name \in DOMAIN pk1 THEN pk1[name] ELSE EmptyMap,
                                    new_pk, new_row))
               ELSE pk1
        uqT == TableUq(ix, name)
        uqT2 == [c \in DOMAIN uqT \cup UniqueCols(table) |->
                    IF c \in UniqueCols(table)
                    THEN LET old_value == RowGet(old_row, c)
                             new_value == RowGet(new_row, c)
                             m1 == IF old_value # NULL /\ MapHas(ColMap(uqT, c), old_value)
                                   THEN MapDel(ColMap(uqT, c), old_value)
                                   ELSE ColMap(uqT, c)
                         IN IF new_value # NULL THEN MapPut(m1, new_value, new_row) ELSE m1
                    ELSE uqT[c]]
        uq2 == IF UniqueCols(table) = {} THEN ix.uq ELSE SetTable(ix.uq, name, uqT2)
    IN [pk |-> pk2, uq |-> uq2]

remove_row(ix, table, row) ==
    LET name == table.name
        pkv == RowGet(row, get_primary_key_column(table).name)
        pk1 == IF pkv # NULL /\ name \in DOMAIN ix.pk /\ MapHas(TablePk(ix, name), pkv)
               THEN SetTable(ix.pk, name, MapDel(ix.pk[name], pkv))
               ELSE ix.pk
        uq1 == IF name \in DOMAIN ix.uq
               THEN SetTable(ix.uq, name,
                        [c \in DOMAIN ix.uq[name] |->
                            IF c \in UniqueCols(table) /\ RowGet(row, c) # NULL
                            THEN MapDel(ix.uq[name][c], RowGet(row, c))
                            ELSE ix.uq[name][c]])
               ELSE ix.uq
    IN [pk |-> pk1, uq |-> uq1]

RECURSIVE AddRows(_, _, _, _)
AddRows(ix, table, rows, i) ==
    IF i > Len(rows) THEN ix ELSE AddRows(add_row(ix, table, rows[i]), table, rows, i + 1)

\* rebuild_indexes that adds the rows to the indexes the table already has.
RebuildWithoutClearing(ix, table, rows) == AddRows(ix, table, rows, 1)

rebuild_indexes(ix, table, rows) ==
    LET cleared == [pk |-> [x \in DOMAIN ix.pk \ {table.name} |-> ix.pk[x]],
                    uq |-> [x \in DOMAIN ix.uq \ {table.name} |-> ix.uq[x]]]
    IN AddRows(cleared, table, rows, 1)

\* -------------------------------------------------------------- validators
\* Each validator yields TRUE when it raises ConstraintViolationError.
\* validate_primary_key without the refusal of a NULL key.
AcceptNullKey(table, row, existing_rows, primary_key_index) ==
    LET pkc == get_primary_key_column(table).name
        primary_key_value == RowGet(row, pkc)
    IN IF ~IsNone(primary_key_index)
       THEN MapHas(primary_key_index[1], primary_key_value)
       ELSE \E i \in 1..Len(existing_rows) :
                PyEq(RowGet(existing_rows[i], pkc), primary_key_value)

validate_primary_key(table, row, existing_rows, primary_key_index) ==
    LET pkc == get_primary_key_column(table).name
        primary_key_value == RowGet(row, pkc)
    IN IF primary_key_value = NULL THEN TRUE
       ELSE IF ~IsNone(primary_key_index)
            THEN MapHas(primary_key_index[1], primary_key_value)
            ELSE \E i \in 1..Len(existing_rows) :
                     PyEq(RowGet(existing_rows[i], pkc), primary_key_value)

validate_unique_constraints(table, row, existing_rows, unique_indexes) ==
    \E c \in UniqueCols(table) :
        LET value == RowGet(row, c) IN
        /\ value # NULL
        /\ IF ~IsNone(unique_indexes) /\ c \in DOMAIN unique_indexes[1]
           THEN MapHas(unique_indexes[1][c], value)
           ELSE \E i \in 1..Len(existing_rows) : PyEq(RowGet(existing_rows[i], c), value)

validate_constraints_for_update(table, old_row, new_row, existing_rows, primary_key_index, unique_indexes) ==
    LET pkc == get_primary_key_column(table).name
        old_pk == RowGet(old_row, pkc)
        new_pk == RowGet(new_row, pkc)
    IN \/ /\ ~PyEq(old_pk, new_pk)
          /\ validate_primary_key(table, new_row, existing_rows, primary_key_index)
       \/ \E c \in UniqueCols(table) :
              /\ ~PyEq(RowGet(old_row, c), RowGet(new_row, c))
              /\ RowGet(new_row, c) # NULL
              /\ validate_unique_constraints(table, new_row, existing_rows, unique_indexes)

\* ---------------------------------------------------------------- executor
\* The engine's state as one record: the ledger file (exists, file), the
\* store's _transaction_counter, the schema manager's _tables and the index
\* manager's dicts (ix).  A handler yields [ok, err, db, count, rows]: err is
\* the class of the exception it raises, db the state it leaves behind.
Outcome(ok, err, db, count, rows) ==
    [ok |-> ok, err |-> err, db |-> db, count |-> count, rows |-> rows]
Raise(err, db) == Outcome(FALSE, err, db, 0, <<>>)

\* An append that writes the line twice, under two ids.
AppendEntryTwice(db, table_name, operation, old_value, new_value) ==
    [db EXCEPT !.counter = db.counter + 2,
               !.exists = TRUE,
               !.file = db.file \o
                        <<EntryLine(db.counter + 1, table_name, operation, old_value, new_value),
                          EntryLine(db.counter + 2, table_name, operation, old_value, new_value)>>]

\* An append that drops the line that was last in the file.
AppendEntryOverLast(db, table_name, operation, old_value, new_value) ==
    [db EXCEPT !.counter = db.counter + 1,
               !.exists = TRUE,
               !.file = Append(IF db.file = <<>> THEN <<>>
                               ELSE SubSeq(db.file, 1, Len(db.file) - 1),
                               EntryLine(db.counter + 1, table_name, operation,
                                         old_value, new_value))]

\* create_entry followed by append: the counter moves, the line is written.
AppendEntry(db, table_name, operation, old_value, new_value) ==
    [db EXCEPT !.counter = db.counter + 1,
               !.exists = TRUE,
               !.file = Append(db.file,
                               EntryLine(db.counter + 1, table_name, operation,
                                         old_value, new_value))]

\* validate_row_types: "" when the values pass, else the exception class of
\* the first offending position.
\* validate_row_types that lets every list of values through.
AcceptAnyValues(values, table) == ""

validate_row_types(values, table) ==
    IF Len(values) # Len(table.columns) THEN "TypeValidationError"
    ELSE LET Bad(i) == \/ values[i] = NULL /\ table.columns[i].is_primary_key
                       \/ values[i] # NULL
                          /\ ~validate_type(values[i], table.columns[i].data_type)
         IN IF \A i \in 1..Len(values) : ~Bad(i) THEN ""
            ELSE LET i == CHOOSE i \in 1..Len(values) :
                              Bad(i) /\ \A j \in 1..(i - 1) : ~Bad(j)
                 IN IF values[i] = NULL THEN "ConstraintViolationError"
                    ELSE "TypeValidationError"

\* A CREATE TABLE that replaces the definition of a registered table.
CreateOrReplaceTable(db, table_name, columns) ==
    Outcome(TRUE, "",
            [db EXCEPT !.tables =
                [t \in DOMAIN db.tables \cup {table_name} |->
                    IF t = table_name
                    THEN [name |-> table_name, columns |-> columns]
                    ELSE db.tables[t]]],
            0, <<>>)

execute_create_table(db, table_name, columns) ==
    IF table_name \in DOMAIN db.tables THEN Raise("ValueError", db)
    ELSE Outcome(TRUE, "",
                 [db EXCEPT !.tables =
                     [t \in DOMAIN db.tables \cup {table_name} |->
                         IF t = table_name
                         THEN [name |-> table_name, columns |-> columns]
                         ELSE db.tables[t]]],
                 0, <<>>)

execute_insert(db, table_name, values) ==
    IF table_name \notin DOMAIN db.tables THEN Raise("ValueError", db)
    ELSE
    LET table == db.tables[table_name]
        types == validate_row_types(values, table)
    IN
    IF types # "" THEN Raise(types, db)
    ELSE IF ~build_row_dict_ok(values, table) THEN Raise("ValueError", db)
    ELSE
    LET row == build_row_dict(values, table)
        read == read_all(db.exists, db.file)
    IN
    IF ~validate_row(row, table) THEN Raise("ValueError", db)
    ELSE IF ~read.ok THEN Raise(read.err, db)
    ELSE
    LET existing_rows == reconstruct_state_with_primary_key(
                             read.entries, table_name, get_primary_key_column(table).name)
        primary_key_index == get_primary_key_index(db.ix, table_name)
        unique_indexes == get_unique_indexes(db.ix, table_name)
    IN
    IF validate_primary_key(table, row, existing_rows, primary_key_index)
    THEN Raise("ConstraintViolationError", db)
    ELSE IF validate_unique_constraints(table, row, existing_rows, unique_indexes)
    THEN Raise("ConstraintViolationError", db)
    ELSE LET db1 == AppendEntry(db, table_name, "INSERT", None, Some(row))
         IN Outcome(TRUE, "", [db1 EXCEPT !.ix = add_row(db.ix, table, row)], 1, <<>>)

\* The comparison of one row against a simple condition; TypeError when an
\* ordering operator meets a str and a number.
CondRaises(row, w) ==
    /\ w.operator \in {"<", "<=", ">", ">="}
    /\ RowGet(row, w.column) # NULL
    /\ w.value # NULL
    /\ ~Comparable(RowGet(row, w.column), w.value)

\* A comparison in which NULL sorts below every value instead of failing
\* every ordering test.
CondHoldsNullLowest(row, w) ==
    LET row_value == RowGet(row, w.column)
        value == w.value
        Less(x, y) == IF x = NULL THEN y # NULL ELSE y # NULL /\ PyLess(x, y)
    IN CASE w.operator = "=" -> PyEq(row_value, value)
         [] w.operator = "!=" -> ~PyEq(row_value, value)
         [] w.operator = ">" -> Less(value, row_value)
         [] w.operator = "<" -> Less(row_value, value)
         [] w.operator = ">=" -> ~Less(row_value, value)
         [] w.operator = "<=" -> ~Less(value, row_value)
         [] OTHER -> FALSE

CondHolds(row, w) ==
    LET row_value == RowGet(row, w.column)
        value == w.value
    IN CASE w.operator = "=" -> PyEq(row_value, value)
         [] w.operator = "!=" -> ~PyEq(row_value, value)
         [] w.operator = ">" -> row_value # NULL /\ value # NULL /\ PyLess(value, row_value)
         [] w.operator = "<" -> row_value # NULL /\ value # NULL /\ PyLess(row_value, value)
         [] w.operator = ">=" -> row_value # NULL /\ value # NULL /\ ~PyLess(row_value, value)
         [] w.operator = "<=" -> row_value # NULL /\ value # NULL /\ ~PyLess(value, row_value)
         [] OTHER -> FALSE

\* A filter that keeps the rows that fail the condition.
WhereKeepsTheOthers(rows, where_clause) ==
    [ok |-> TRUE, err |-> "",
     rows |-> SelectSeq(rows, LAMBDA r : ~CondHolds(r, where_clause))]

\* A filter that lets every row through.
WhereKeepsEveryRow(rows, where_clause) ==
    [ok |-> TRUE, err |-> "", rows |-> rows]

\* _apply_where_clause: [ok, err, rows].  It reads where_clause["column"]
\* first, whatever the node is.
_apply_where_clause(rows, where_clause) ==
    IF ~({"column", "operator", "value"} \subseteq DOMAIN where_clause)
    THEN [ok |-> FALSE, err |-> "KeyError", rows |-> <<>>]
    ELSE IF \E i \in 1..Len(rows) : CondRaises(rows[i], where_clause)
    THEN [ok |-> FALSE, err |-> "TypeError", rows |-> <<>>]
    ELSE [ok |-> TRUE, err |-> "",
          rows |-> SelectSeq(rows, LAMBDA r : CondHolds(r, where_clause))]

\* The WHERE step shared by SELECT, UPDATE and DELETE: no clause, no filter.
Filter(rows, where) ==
    IF IsNone(where) THEN [ok |-> TRUE, err |-> "", rows |-> rows]
    ELSE _apply_where_clause(rows, where[1])

\* A new_row that takes the SET values as they are written.
UpdatedRowUnconverted(table, old_row, set_clauses) ==
    [c \in DOMAIN old_row \cup DOMAIN set_clauses |->
        IF c \in DOMAIN set_clauses THEN set_clauses[c] ELSE old_row[c]]

\* new_row of execute_update: the SET map laid over a copy of the row, each
\* value converted when its column is known and the conversion succeeds.
UpdatedRow(table, old_row, set_clauses) ==
    [c \in DOMAIN old_row \cup DOMAIN set_clauses |->
        IF c \in DOMAIN set_clauses
        THEN LET column == get_column(table, c) IN
             IF IsNone(column) THEN set_clauses[c]
             ELSE LET conv == convert_value(set_clauses[c], column[1].data_type)
                  IN IF conv.ok THEN conv.v ELSE set_clauses[c]
        ELSE old_row[c]]

RECURSIVE UpdateLoop(_, _, _, _, _, _)
UpdateLoop(db, table, rows, matching_rows, set_clauses, i) ==
    IF i > Len(matching_rows) THEN Outcome(TRUE, "", db, i - 1, <<>>)
    ELSE
    LET old_row == matching_rows[i]
        new_row == UpdatedRow(table, old_row, set_clauses)
        other_rows == SelectSeq(rows, LAMBDA r : r # old_row)
    IN
    IF validate_constraints_for_update(table, old_row, new_row, other_rows,
                                       get_primary_key_index(db.ix, table.name),
                                       get_unique_indexes(db.ix, table.name))
    THEN Outcome(FALSE, "ConstraintViolationError", db, i - 1, <<>>)
    ELSE LET db1 == AppendEntry(db, table.name, "UPDATE", Some(old_row), Some(new_row))
         IN UpdateLoop([db1 EXCEPT !.ix = update_row(db.ix, table, old_row, new_row)],
                       table, rows, matching_rows, set_clauses, i + 1)

execute_update(db, table_name, set_clauses, where) ==
    IF table_name \notin DOMAIN db.tables THEN Raise("ValueError", db)
    ELSE
    LET table == db.tables[table_name]
        read == read_all(db.exists, db.file)
    IN
    IF ~read.ok THEN Raise(read.err, db)
    ELSE
    LET rows == reconstruct_state_with_primary_key(
                    read.entries, table_name, get_primary_key_column(table).name)
        matching == Filter(rows, where)
    IN IF ~matching.ok THEN Raise(matching.err, db)
       ELSE UpdateLoop(db, table, rows, matching.rows, set_clauses, 1)

RECURSIVE DeleteLoop(_, _, _, _)
DeleteLoop(db, table, matching_rows, i) ==
    IF i > Len(matching_rows) THEN Outcome(TRUE, "", db, i - 1, <<>>)
    ELSE LET row == matching_rows[i]
             db1 == AppendEntry(db, table.name, "DELETE", Some(row), None)
         IN DeleteLoop([db1 EXCEPT !.ix = remove_row(db.ix, table, row)],
                       table, matching_rows, i + 1)

\* execute_delete walking the matching rows from the last one to the first.
DeleteLastFirst(db, table_name, where) ==
    IF table_name \notin DOMAIN db.tables THEN Raise("ValueError", db)
    ELSE
    LET table == db.tables[table_name]
        read == read_all(db.exists, db.file)
    IN
    IF ~read.ok THEN Raise(read.err, db)
    ELSE
    LET rows == reconstruct_state_with_primary_key(
                    read.entries, table_name, get_primary_key_column(table).name)
        matching == Filter(rows, where)
        n == Len(matching.rows)
    IN IF ~matching.ok THEN Raise(matching.err, db)
       ELSE DeleteLoop(db, table, [i \in 1..n |-> matching.rows[n + 1 - i]], 1)

execute_delete(db, table_name, where) ==
    IF table_name \notin DOMAIN db.tables THEN Raise("ValueError", db)
    ELSE
    LET table == db.tables[table_name]
        read == read_all(db.exists, db.file)
    IN
    IF ~read.ok THEN Raise(read.err, db)
    ELSE
    LET rows == reconstruct_state_with_primary_key(
                    read.entries, table_name, get_primary_key_column(table).name)
        matching == Filter(rows, where)
    IN IF ~matching.ok THEN Raise(matching.err, db)
       ELSE DeleteLoop(db, table, matching.rows, 1)

\* {**left_row, **right_row}
MergeRows(left_row, right_row) ==
    [c \in DOMAIN left_row \cup DOMAIN right_row |->
        IF c \in DOMAIN right_row THEN right_row[c] ELSE left_row[c]]

RECURSIVE MapMerge(_, _, _)
MapMerge(left_row, right_rows, j) ==
    IF j > Len(right_rows) THEN <<>>
    ELSE <<MergeRows(left_row, right_rows[j])>> \o MapMerge(left_row, right_rows, j + 1)

\* _execute_join; condition is the one-pair dict {left_col: right_col}.
RECURSIVE JoinFrom(_, _, _, _)
JoinFrom(left_rows, right_rows, condition, i) ==
    IF i > Len(left_rows) THEN <<>>
    ELSE MapMerge(left_rows[i],
                  SelectSeq(right_rows,
                            LAMBDA r : PyEq(RowGet(left_rows[i], condition.left),
                                            RowGet(r, condition.right))),
                  1)
         \o JoinFrom(left_rows, right_rows, condition, i + 1)

_execute_join(left_rows, right_rows, condition) ==
    JoinFrom(left_rows, right_rows, condition, 1)

\* The joins of a SELECT, applied in order: [ok, err, rows].
RECURSIVE ApplyJoins(_, _, _, _)
ApplyJoins(db, rows, joins, i) ==
    IF i > Len(joins) THEN [ok |-> TRUE, err |-> "", rows |-> rows]
    ELSE IF joins[i].table_name \notin DOMAIN db.tables
    THEN [ok |-> FALSE, err |-> "ValueError", rows |-> <<>>]
    ELSE LET join_table == db.tables[joins[i].table_name]
             read == read_all(db.exists, db.file)
         IN IF ~read.ok THEN [ok |-> FALSE, err |-> read.err, rows |-> <<>>]
            ELSE ApplyJoins(db,
                            _execute_join(rows,
                                reconstruct_state_with_primary_key(
                                    read.entries, joins[i].table_name,
                                    get_primary_key_column(join_table).name),
                                joins[i].condition),
                            joins, i + 1)

\* A selected column as the parser leaves it: text is the column string
\* ("c" or "t.c"), qualifier and name the two sides of its first dot
\* (qualifier "" when there is no dot).
ColSpec(qualifier, name, text) == [qualifier |-> qualifier, name |-> name, text |-> text]
Star == <<ColSpec("", "*", "*")>>

ProjectRow(row, columns) ==
    LET Kept(spec) == \/ spec.qualifier = ""
                      \/ spec.qualifier \in DOMAIN row
                      \/ spec.name \in DOMAIN row
        specs == {columns[i] : i \in 1..Len(columns)}
    IN [text \in {spec.text : spec \in {x \in specs : Kept(x)}} |->
           LET spec == CHOOSE x \in specs : x.text = text IN
           IF spec.qualifier = "" THEN RowGet(row, text)
           ELSE IF spec.name \in DOMAIN row THEN row[spec.name]
           ELSE RowGet(row, text)]

\* A SELECT that takes a transaction id from the store while it reads.
SelectTakingAnId(db, columns, table_name, where, joins) ==
    IF table_name \notin DOMAIN db.tables THEN Raise("ValueError", db)
    ELSE
    LET table == db.tables[table_name]
        read == read_all(db.exists, db.file)
        db1 == [db EXCEPT !.counter = db.counter + 1]
    IN
    IF ~read.ok THEN Raise(read.err, db)
    ELSE
    LET rows == reconstruct_state_with_primary_key(
                    read.entries, table_name, get_primary_key_column(table).name)
        filtered == Filter(rows, where)
    IN
    IF ~filtered.ok THEN Raise(filtered.err, db)
    ELSE
    LET joined == ApplyJoins(db, filtered.rows, joins, 1) IN
    IF ~joined.ok THEN Raise(joined.err, db)
    ELSE IF columns = Star THEN Outcome(TRUE, "", db1, Len(joined.rows), joined.rows)
    ELSE Outcome(TRUE, "", db1, Len(joined.rows),
                 [i \in 1..Len(joined.rows) |-> ProjectRow(joined.rows[i], columns)])

execute_select(db, columns, table_name, where, joins) ==
    IF table_name \notin DOMAIN db.tables THEN Raise("ValueError", db)
    ELSE
    LET table == db.tables[table_name]
        read == read_all(db.exists, db.file)
    IN
    IF ~read.ok THEN Raise(read.err, db)
    ELSE
    LET rows == reconstruct_state_with_primary_key(
                    read.entries, table_name, get_primary_key_column(table).name)
        filtered == Filter(rows, where)
    IN
    IF ~filtered.ok THEN Raise(filtered.err, db)
    ELSE
    LET joined == ApplyJoins(db, filtered.rows, joins, 1) IN
    IF ~joined.ok THEN Raise(joined.err, db)
    ELSE IF columns = Star THEN Outcome(TRUE, "", db, Len(joined.rows), joined.rows)
    ELSE Outcome(TRUE, "", db, Len(joined.rows),
                 [i \in 1..Len(joined.rows) |-> ProjectRow(joined.rows[i], columns)])

\* ------------------------------------------------------------------- state
VARIABLES
    ledger_exists,  \* the ledger file is on disk
    ledger,         \* its lines, in file order
    counter,        \* LedgerStore._transaction_counter
    tables,         \* SchemaManager._tables
    indexes,        \* IndexManager: [pk, uq]
    last,           \* the statement executed last and how it ended
    opened_on,      \* the lines of the file when this engine was constructed
    sessions,       \* engines constructed so far on this file
    origin,         \* the lines of the file before the first engine wrote to it
    query           \* the tokens of the SQL text handed to the parser

vars == <<ledger_exists, ledger, counter, tables, indexes, last, opened_on, sessions,
          origin, query>>

DB == [exists |-> ledger_exists, file |-> ledger, counter |-> counter,
       tables |-> tables, ix |-> indexes]

NoIndexes == [pk |-> <<>>, uq |-> <<>>]

Stmt(op, table, values, set, where, columns, joins) ==
    [op |-> op, table |-> table, values |-> values, set |-> set, where |-> where,
     columns |-> columns, joins |-> joins, ok |-> TRUE, err |-> "", count |-> 0]

NoStmt == Stmt("", "", <<>>, <<>>, None, <<>>, <<>>)

\* The engine after a handler ended with outcome out.
Commit(out, stmt) ==
    /\ ledger_exists' = out.db.exists
    /\ ledger' = out.db.file
    /\ counter' = out.db.counter
    /\ tables' = out.db.tables
    /\ indexes' = out.db.ix
    /\ last' = [stmt EXCEPT !.ok = out.ok, !.err = out.err, !.count = out.count]
    /\ UNCHANGED <<opened_on, sessions, origin, query>>

\* DatabaseEngine.__init__ on a ledger file: fresh schema manager and index
\* manager, the counter loaded from the file.
Construct(exists, file) ==
    /\ ledger_exists = exists
    /\ ledger = file
    /\ counter = _load_transaction_counter(exists, file)
    /\ tables = <<>>
    /\ indexes = NoIndexes
    /\ last = NoStmt
    /\ opened_on = file
    /\ sessions = 1
    /\ origin = file
    /\ query = <<>>

\* ------------------------------------------------------------------ inputs
Cond(column, operator, value) ==
    [type |-> "CONDITION", column |-> column, operator |-> operator, value |-> value]
Node(type, left, right) == [type |-> type, left |-> left, right |-> right]

Schemas ==
    [t |-> <<Column("id", "INT", TRUE, FALSE),
             Column("a", "FLOAT", FALSE, TRUE),
             Column("b", "TEXT", FALSE, TRUE)>>,
     u |-> <<Column("id", "INT", TRUE, FALSE),
             Column("k", "FLOAT", FALSE, FALSE)>>]

TableNames == {"t"}

InsertValues(table_name) ==
    {<<IntV(i), IntV(1), StrV("x")>> : i \in {1, 2}}
    \cup {<<IntV(i), FloatV(3), NULL>> : i \in {1, 2}}
    \cup {<<IntV(i), NULL, NULL>> : i \in {1, 2}}
    \cup {<<NULL, IntV(1), NULL>>, <<StrV("x"), NULL, NULL>>, <<IntV(1), NULL>>}

UpdateSets(table_name) ==
    {[id |-> IntV(2)], [id |-> NULL], [a |-> IntV(1)], [a |-> NULL], [b |-> StrV("x")],
     [b |-> IntV(1)]}

Wheres == {None, Some(Cond("id", "=", IntV(1)))}

Selects ==
    {[columns |-> Star, where |-> w, joins |-> <<>>] : w \in Wheres}

\* ----------------------------------------------------------------- actions
\* A statement that appends starts only while the file is below MaxLedger.
Room(out) == out.db.file = ledger \/ Len(ledger) < MaxLedger

CreateTable ==
    \E tn \in TableNames :
        Commit(execute_create_table(DB, tn, Schemas[tn]),
               Stmt("CREATE", tn, <<>>, <<>>, None, <<>>, <<>>))

Insert ==
    \E tn \in TableNames : \E values \in InsertValues(tn) :
        LET out == execute_insert(DB, tn, values) IN
        /\ Room(out)
        /\ Commit(out, Stmt("INSERT", tn, values, <<>>, None, <<>>, <<>>))

Update ==
    \E tn \in TableNames : \E set \in UpdateSets(tn) : \E w \in Wheres :
        LET out == execute_update(DB, tn, set, w) IN
        /\ Room(out)
        /\ Commit(out, Stmt("UPDATE", tn, <<>>, set, w, <<>>, <<>>))

Delete ==
    \E tn \in TableNames : \E w \in Wheres :
        LET out == execute_delete(DB, tn, w) IN
        /\ Room(out)
        /\ Commit(out, Stmt("DELETE", tn, <<>>, <<>>, w, <<>>, <<>>))

Select ==
    \E tn \in TableNames : \E q \in Selects :
        Commit(execute_select(DB, q.columns, tn, q.where, q.joins),
               Stmt("SELECT", tn, <<>>, <<>>, q.where, q.columns, q.joins))

\* One engine on a ledger file that does not exist yet.
Init == Construct(FALSE, <<>>)

Next == CreateTable \/ Insert \/ Update \/ Delete \/ Select

Spec == Init /\ [][Next]_vars

\* ------------------------------------------------------- the store by itself
\* The ledger store on any file: entries of two tables, blank lines and
\* lines that do not parse, with the callers of create_entry / append / clear
\* left open.
StoreRows ==
    {[id |-> IntV(1), a |-> IntV(1)], [id |-> IntV(1), a |-> IntV(2)],
     [id |-> IntV(2), a |-> IntV(1)], [id |-> NULL, a |-> IntV(1)]}

StoreEntries ==
    {[table_name |-> tn, operation |-> "INSERT", old_value |-> None, new_value |-> new] :
        tn \in {"t", "u"}, new \in {Some(r) : r \in StoreRows} \cup {None}}
    \cup
    {[table_name |-> tn, operation |-> "UPDATE",
      old_value |-> Some([id |-> IntV(1), a |-> IntV(1)]), new_value |-> new] :
        tn \in {"t"}, new \in {Some(r) : r \in StoreRows} \cup {None}}
    \cup
    {[table_name |-> tn, operation |-> "DELETE", old_value |-> old, new_value |-> None] :
        tn \in {"t", "u"},
        old \in {Some([id |-> IntV(1), a |-> IntV(1)]), Some([id |-> IntV(2), a |-> IntV(1)]),
                 Some([id |-> NULL, a |-> IntV(1)]), None}}

\* The files the store is constructed on: none, an empty one, one holding a
\* blank line, one holding a line that does not parse, one holding a JSON
\* object that is not an entry.
StoreFiles ==
    {[exists |-> FALSE, file |-> <<>>], [exists |-> TRUE, file |-> <<>>],
     [exists |-> TRUE, file |-> <<BlankLine>>], [exists |-> TRUE, file |-> <<BadLine>>],
     [exists |-> TRUE, file |-> <<IncompleteLine>>]}

StoreInit == \E f \in StoreFiles : Construct(f.exists, f.file)

StoreAppend ==
    \E e \in StoreEntries :
        /\ Len(ledger) < MaxFile
        /\ ledger_exists' = TRUE
        /\ counter' = counter + 1
        /\ ledger' = Append(ledger, EntryLine(counter + 1, e.table_name, e.operation,
                                              e.old_value, e.new_value))
        /\ UNCHANGED <<tables, indexes, last, opened_on, sessions, origin, query>>

\* clear that deletes the file and keeps the counter.
StoreClearKeepsCounter ==
    /\ ledger_exists' = FALSE
    /\ ledger' = <<>>
    /\ origin' = <<>>
    /\ UNCHANGED <<counter, tables, indexes, last, opened_on, sessions, query>>

\* LedgerStore.clear
StoreClear ==
    /\ ledger_exists' = FALSE
    /\ ledger' = <<>>
    /\ counter' = 0
    /\ origin' = <<>>
    /\ UNCHANGED <<tables, indexes, last, opened_on, sessions, query>>

StoreNext == StoreAppend \/ StoreClear

SpecStore == StoreInit /\ [][StoreNext]_vars

\* -------------------------------------------------- sessions on one file
\* Engines constructed one after the other on the same ledger file, the
\* first one on a file written elsewhere; the file is touched by nothing else.
Null3(i) == [id |-> IntV(i), a |-> NULL, b |-> NULL]

SessionFiles ==
    {[exists |-> FALSE, file |-> <<>>],
     [exists |-> TRUE,
      file |-> <<EntryLine(3, "t", "INSERT", None, Some(Null3(1))),
                 EntryLine(1, "t", "INSERT", None, Some(Null3(2)))>>],
     [exists |-> TRUE,
      file |-> <<EntryLine(1, "t", "INSERT", None, Some(Null3(1))), BlankLine,
                 EntryLine(2, "t", "DELETE", Some(Null3(1)), None)>>],
     [exists |-> TRUE,
      file |-> <<EntryLine(5, "t", "INSERT", None, Some(Null3(1))), BadLine,
                 EntryLine(7, "t", "INSERT", None, Some(Null3(2)))>>]}

SessionInserts == {<<IntV(1), NULL, NULL>>, <<IntV(2), IntV(1), NULL>>, <<IntV(3), IntV(1), NULL>>}
SessionSets == {[b |-> StrV("x")]}

SessionRoom(out) == out.db.file = ledger \/ Len(ledger) < Len(origin) + MaxLedger

SessionInit == \E f \in SessionFiles : Construct(f.exists, f.file)

SessionCreate ==
    Commit(execute_create_table(DB, "t", Schemas["t"]),
           Stmt("CREATE", "t", <<>>, <<>>, None, <<>>, <<>>))

SessionInsert ==
    \E values \in SessionInserts :
        LET out == execute_insert(DB, "t", values) IN
        /\ SessionRoom(out)
        /\ Commit(out, Stmt("INSERT", "t", values, <<>>, None, <<>>, <<>>))

SessionUpdate ==
    \E set \in SessionSets : \E w \in Wheres :
        LET out == execute_update(DB, "t", set, w) IN
        /\ SessionRoom(out)
        /\ Commit(out, Stmt("UPDATE", "t", <<>>, set, w, <<>>, <<>>))

SessionDelete ==
    \E w \in Wheres :
        LET out == execute_delete(DB, "t", w) IN
        /\ SessionRoom(out)
        /\ Commit(out, Stmt("DELETE", "t", <<>>, <<>>, w, <<>>, <<>>))

\* The process ends and a new DatabaseEngine is constructed on the file.
\* A new engine that inherits the schema registry of the one before.
ReopenKeepsSchemas ==
    /\ sessions < MaxSessions
    /\ counter' = _load_transaction_counter(ledger_exists, ledger)
    /\ indexes' = NoIndexes
    /\ last' = NoStmt
    /\ opened_on' = ledger
    /\ sessions' = sessions + 1
    /\ UNCHANGED <<ledger_exists, ledger, origin, tables, query>>

Reopen ==
    /\ sessions < MaxSessions
    /\ counter' = _load_transaction_counter(ledger_exists, ledger)
    /\ tables' = <<>>
    /\ indexes' = NoIndexes
    /\ last' = NoStmt
    /\ opened_on' = ledger
    /\ sessions' = sessions + 1
    /\ UNCHANGED <<ledger_exists, ledger, origin, query>>

SessionNext == SessionCreate \/ SessionInsert \/ SessionUpdate \/ SessionDelete \/ Reopen

SpecSessions == SessionInit /\ [][SessionNext]_vars

\* ------------------------------------------------------------------ queries
\* The engine on two tables, its statements written with the clauses the
\* parser accepts after FROM: WHERE trees, JOINs with plain or qualified
\* column names, and a WHERE on either side of the JOINs.
MaxQueryLedger == 3

\* A column reference of the SQL text; qualifier "" when it is not qualified.
Ref(qualifier, name) == [qualifier |-> qualifier, name |-> name]

\* The string parse_join keeps for a column reference: f"{table}.{col}".
ColumnText(ref) ==
    IF ref.qualifier = "" THEN ref.name ELSE ref.qualifier \o "." \o ref.name

\* The clauses of a SELECT text after FROM <table>.
WhereText(where) == [kind |-> "WHERE", where |-> where]
JoinText(table_name, left, right) ==
    [kind |-> "JOIN", table_name |-> table_name, left |-> left, right |-> right]

parse_join(clause) ==
    [table_name |-> clause.table_name,
     join_type |-> "INNER",
     condition |-> [left |-> ColumnText(clause.left), right |-> ColumnText(clause.right)]]

\* The JOIN clauses that follow position i without a break.
RECURSIVE JoinsFrom(_, _)
JoinsFrom(clauses, i) ==
    IF i > Len(clauses) \/ clauses[i].kind # "JOIN" THEN <<>>
    ELSE <<parse_join(clauses[i])>> \o JoinsFrom(clauses, i + 1)

\* parse_select after FROM <table>: an optional WHERE, then the JOINs; what
\* follows them is left unread.
parse_select(columns, table_name, clauses) ==
    LET has_where == clauses # <<>> /\ clauses[1].kind = "WHERE"
    IN [columns |-> columns,
        table_name |-> table_name,
        where_clause |-> IF has_where THEN Some(clauses[1].where) ELSE None,
        joins |-> JoinsFrom(clauses, IF has_where THEN 2 ELSE 1)]

\* execute on a SELECT text.
RunSelect(db, columns, table_name, clauses) ==
    LET stmt == parse_select(columns, table_name, clauses)
    IN execute_select(db, stmt.columns, stmt.table_name, stmt.where_clause, stmt.joins)

QueryTables == {"t", "u"}

QueryValues(table_name) ==
    IF table_name = "t"
    THEN {<<IntV(i), NULL, NULL>> : i \in {1, 2}}
    ELSE {<<IntV(2), IntV(1)>>, <<IntV(1), IntV(2)>>}

\* id = k written plainly and with qualified names.
PlainJoin == JoinText("u", Ref("", "id"), Ref("", "k"))
QualifiedJoin == JoinText("u", Ref("t", "id"), Ref("u", "k"))

\* WHERE trees as parse_or_condition builds them, and conditions on a column
\* no row has.
IdIs(i) == Cond("id", "=", IntV(i))
QueryTrees ==
    {Node("AND", IdIs(1), Cond("a", "=", NULL)),
     Node("OR", IdIs(1), IdIs(2)),
     Node("OR", Node("AND", IdIs(1), IdIs(2)), IdIs(2))}
Operators == {"=", "!=", "<", "<=", ">", ">="}
AbsentColumnConds == {Cond("zz", op, v) : op \in Operators, v \in {NULL, IntV(1)}}
QueryWheres == {IdIs(1), Cond("k", "=", IntV(2))} \cup QueryTrees \cup AbsentColumnConds

QuerySelects ==
    {<<>>, <<PlainJoin>>, <<QualifiedJoin>>}
    \cup {<<WhereText(w)>> : w \in QueryWheres}
    \cup {<<PlainJoin, WhereText(w)>> : w \in {IdIs(1), Cond("k", "=", IntV(2))}}
    \cup {<<WhereText(IdIs(1)), PlainJoin>>}

QueryRoom(out) == out.db.file = ledger \/ Len(ledger) < MaxQueryLedger

QueryInit == Construct(FALSE, <<>>)

QueryCreate ==
    \E tn \in QueryTables :
        Commit(execute_create_table(DB, tn, Schemas[tn]),
               Stmt("CREATE", tn, <<>>, <<>>, None, <<>>, <<>>))

QueryInsert ==
    \E tn \in QueryTables : \E values \in QueryValues(tn) :
        LET out == execute_insert(DB, tn, values) IN
        /\ QueryRoom(out)
        /\ Commit(out, Stmt("INSERT", tn, values, <<>>, None, <<>>, <<>>))

QuerySelect ==
    \E clauses \in QuerySelects :
        LET stmt == parse_select(Star, "t", clauses) IN
        Commit(RunSelect(DB, Star, "t", clauses),
               Stmt("SELECT", "t", <<>>, <<>>, stmt.where_clause, Star, stmt.joins))

QueryUpdate ==
    \E w \in QueryWheres :
        LET out == execute_update(DB, "t", [b |-> StrV("x")], Some(w)) IN
        /\ QueryRoom(out)
        /\ Commit(out, Stmt("UPDATE", "t", <<>>, [b |-> StrV("x")], Some(w), <<>>, <<>>))

QueryDelete ==
    \E w \in QueryWheres :
        LET out == execute_delete(DB, "t", Some(w)) IN
        /\ QueryRoom(out)
        /\ Commit(out, Stmt("DELETE", "t", <<>>, <<>>, Some(w), <<>>, <<>>))

QueryNext == QueryCreate \/ QueryInsert \/ QuerySelect \/ QueryUpdate \/ QueryDelete

SpecQuery == QueryInit /\ [][QueryNext]_vars

\* -------------------------------------------------------------- persistence
\* A session of successful statements on table t, then the restart of the
\* persistence test: a new engine on the same file, the same CREATE TABLE,
\* and rebuild_indexes fed with the rows reconstruct returns.
PersistInserts == {<<IntV(1), NULL, NULL>>, <<IntV(2), IntV(1), NULL>>, <<IntV(1), FloatV(3), StrV("x")>>}
PersistSets == {[id |-> IntV(2)], [b |-> StrV("x")], [a |-> NULL]}

PersistRoom == Len(ledger) < MaxLedger

PersistInit == Construct(FALSE, <<>>)

PersistCreate ==
    LET out == execute_create_table(DB, "t", Schemas["t"]) IN
    /\ out.ok
    /\ Commit(out, Stmt("CREATE", "t", <<>>, <<>>, None, <<>>, <<>>))

PersistInsert ==
    \E values \in PersistInserts :
        LET out == execute_insert(DB, "t", values) IN
        /\ PersistRoom /\ out.ok
        /\ Commit(out, Stmt("INSERT", "t", values, <<>>, None, <<>>, <<>>))

PersistUpdate ==
    \E set \in PersistSets : \E w \in Wheres :
        LET out == execute_update(DB, "t", set, w) IN
        /\ PersistRoom /\ out.ok
        /\ Commit(out, Stmt("UPDATE", "t", <<>>, set, w, <<>>, <<>>))

PersistDelete ==
    \E w \in Wheres :
        LET out == execute_delete(DB, "t", w) IN
        /\ PersistRoom /\ out.ok
        /\ Commit(out, Stmt("DELETE", "t", <<>>, <<>>, w, <<>>, <<>>))

PersistSelect ==
    \E q \in Selects :
        Commit(execute_select(DB, q.columns, "t", q.where, q.joins),
               Stmt("SELECT", "t", <<>>, <<>>, q.where, q.columns, q.joins))

ReopenAndRebuild ==
    LET fresh == [exists |-> ledger_exists, file |-> ledger,
                  counter |-> _load_transaction_counter(ledger_exists, ledger),
                  tables |-> <<>>, ix |-> NoIndexes]
        created == execute_create_table(fresh, "t", Schemas["t"]).db
        table == created.tables["t"]
        rows == reconstruct_state_with_primary_key(
                    read_all(created.exists, created.file).entries, "t",
                    get_primary_key_column(table).name)
    IN /\ sessions < MaxSessions
       /\ "t" \in DOMAIN tables
       /\ counter' = created.counter
       /\ tables' = created.tables
       /\ indexes' = rebuild_indexes(created.ix, table, rows)
       /\ last' = Stmt("CREATE", "t", <<>>, <<>>, None, <<>>, <<>>)
       /\ opened_on' = ledger
       /\ sessions' = sessions + 1
       /\ UNCHANGED <<ledger_exists, ledger, origin, query>>

PersistNext ==
    \/ PersistCreate \/ PersistInsert \/ PersistUpdate \/ PersistDelete
    \/ PersistSelect \/ ReopenAndRebuild

SpecPersist == PersistInit /\ [][PersistNext]_vars

\* ------------------------------------------------------------------- parser
\* The parser on the tokens of a WHERE clause.  A token is [type, value];
\* the position past the last token is the EOF token.  Each parse_* yields
\* [ok, tree, pos]: ok = FALSE is the ParserError, pos the token it stands on.
Tok(type, value) == [type |-> type, value |-> value]
TypeAt(tokens, pos) == IF pos <= Len(tokens) THEN tokens[pos].type ELSE "EOF"
ParserError(pos) == [ok |-> FALSE, tree |-> <<>>, pos |-> pos]
Parsed(tree, pos) == [ok |-> TRUE, tree |-> tree, pos |-> pos]

\* parse_value: [ok, v]
parse_value(tokens, pos) ==
    CASE TypeAt(tokens, pos) = "STRING" -> [ok |-> TRUE, v |-> StrV(tokens[pos].value)]
      [] TypeAt(tokens, pos) = "NUMBER" ->
            [ok |-> TRUE,
             v |-> IF tokens[pos].value \in IntTexts
                   THEN IntV(TextHalves(tokens[pos].value) \div 2)
                   ELSE FloatV(TextHalves(tokens[pos].value))]
      [] TypeAt(tokens, pos) = "NULL" -> [ok |-> TRUE, v |-> NULL]
      [] OTHER -> [ok |-> FALSE, v |-> NULL]

parse_simple_condition(tokens, pos) ==
    IF TypeAt(tokens, pos) # "IDENTIFIER" THEN ParserError(pos)
    ELSE
    LET col_name == tokens[pos].value
        type == TypeAt(tokens, pos + 1)
        operator == CASE type = "EQUALS" -> "="
                      [] type = "NOT_EQUALS" -> "!="
                      [] type = "GREATER" -> ">"
                      [] type = "LESS" -> "<"
                      [] type = "GREATER_EQUAL" -> ">="
                      [] type = "LESS_EQUAL" -> "<="
                      [] OTHER -> ""
        value == parse_value(tokens, pos + 2)
    IN IF operator = "" THEN ParserError(pos + 1)
       ELSE IF ~value.ok THEN ParserError(pos + 2)
       ELSE Parsed(Cond(col_name, operator, value.v), pos + 3)

\* The while loop of parse_and_condition, standing on pos with left built.
RECURSIVE AndLoop(_, _, _)
AndLoop(tokens, left, pos) ==
    IF TypeAt(tokens, pos) # "AND" THEN Parsed(left, pos)
    ELSE LET right == parse_simple_condition(tokens, pos + 1) IN
         IF ~right.ok THEN right
         ELSE AndLoop(tokens, Node("AND", left, right.tree), right.pos)

parse_and_condition(tokens, pos) ==
    LET left == parse_simple_condition(tokens, pos) IN
    IF ~left.ok THEN left ELSE AndLoop(tokens, left.tree, left.pos)

\* The while loop of parse_or_condition.
RECURSIVE OrLoop(_, _, _)
OrLoop(tokens, left, pos) ==
    IF TypeAt(tokens, pos) # "OR" THEN Parsed(left, pos)
    ELSE LET right == parse_and_condition(tokens, pos + 1) IN
         IF ~right.ok THEN right
         ELSE OrLoop(tokens, Node("OR", left, right.tree), right.pos)

\* One loop for both operators: AND and OR at the same precedence level.
RECURSIVE FlatLoop(_, _, _)
FlatLoop(tokens, left, pos) ==
    IF TypeAt(tokens, pos) \notin {"AND", "OR"} THEN Parsed(left, pos)
    ELSE LET right == parse_simple_condition(tokens, pos + 1) IN
         IF ~right.ok THEN right
         ELSE FlatLoop(tokens, Node(TypeAt(tokens, pos), left, right.tree), right.pos)

ParseWithoutPrecedence(tokens, pos) ==
    LET left == parse_simple_condition(tokens, pos) IN
    IF ~left.ok THEN left ELSE FlatLoop(tokens, left.tree, left.pos)

parse_or_condition(tokens, pos) ==
    LET left == parse_and_condition(tokens, pos) IN
    IF ~left.ok THEN left ELSE OrLoop(tokens, left.tree, left.pos)

parse_where_clause(tokens, pos) ==
    IF TypeAt(tokens, pos) # "WHERE" THEN ParserError(pos)
    ELSE parse_or_condition(tokens, pos + 1)

\* Lexer.tokenize on a text given lexeme by lexeme: a character the lexer has
\* no rule for raises SyntaxError; [ok, tokens].
tokenize(text) ==
    IF \E i \in 1..Len(text) : text[i].type = "UNEXPECTED"
    THEN [ok |-> FALSE, tokens |-> <<>>]
    ELSE [ok |-> TRUE, tokens |-> text]

\* DatabaseEngine.execute: what the caller gets for the exception raised
\* inside; every exception leaves as a ValueError whose message starts with
\* "Parse error" for a ParserError and with "Execution error" for the rest.
Surface(err) ==
    IF err = "" THEN [raised |-> FALSE, class |-> "", prefix |-> ""]
    ELSE IF err = "ParserError"
    THEN [raised |-> TRUE, class |-> "ValueError", prefix |-> "Parse error"]
    ELSE [raised |-> TRUE, class |-> "ValueError", prefix |-> "Execution error"]

\* The texts handed to the parser: WHERE, then one to MaxConditions
\* conditions joined by AND and OR, one text that ends on AND, and one that
\* ends on a character the lexer does not know.
MaxConditions == 3
ConditionTexts ==
    {<<Tok("IDENTIFIER", "id"), Tok("EQUALS", "="), Tok("NUMBER", "1")>>,
     <<Tok("IDENTIFIER", "a"), Tok("GREATER", ">"), Tok("NUMBER", "1.5")>>,
     <<Tok("IDENTIFIER", "b"), Tok("NOT_EQUALS", "!="), Tok("STRING", "x")>>,
     <<Tok("IDENTIFIER", "a"), Tok("EQUALS", "="), Tok("NULL", "NULL")>>}
Connectives == {Tok("AND", "AND"), Tok("OR", "OR")}

RECURSIVE ConditionLists(_)
ConditionLists(n) ==
    IF n = 1 THEN ConditionTexts
    ELSE {text \o <<k>> \o c : text \in ConditionLists(n - 1), k \in Connectives,
                                c \in ConditionTexts}

WhereTexts ==
    {<<Tok("WHERE", "WHERE")>> \o text :
        text \in UNION {ConditionLists(n) : n \in 1..MaxConditions}}
    \cup {<<Tok("WHERE", "WHERE"), Tok("IDENTIFIER", "id"), Tok("EQUALS", "="),
            Tok("NUMBER", "1"), Tok("AND", "AND")>>,
          <<Tok("WHERE", "WHERE"), Tok("IDENTIFIER", "id"), Tok("EQUALS", "="),
            Tok("NUMBER", "1"), Tok("UNEXPECTED", "#")>>}

\* The parser is given a text; nothing was parsed yet.
ParseInit ==
    /\ ledger_exists = FALSE
    /\ ledger = <<>>
    /\ counter = 0
    /\ tables = <<>>
    /\ indexes = NoIndexes
    /\ last = NoStmt
    /\ opened_on = <<>>
    /\ sessions = 1
    /\ origin = <<>>
    /\ query \in WhereTexts

\* parse_sql on SELECT * FROM t followed by the text: tokenize, then parse.
Parse ==
    LET lexed == tokenize(query)
        where == parse_where_clause(lexed.tokens, 1)
    IN
    /\ last.op = ""
    /\ last' = [Stmt("SELECT", "t", <<>>, <<>>,
                     IF lexed.ok /\ where.ok THEN Some(where.tree) ELSE None, Star, <<>>)
                EXCEPT !.ok = lexed.ok /\ where.ok,
                       !.err = IF ~lexed.ok THEN "SyntaxError"
                               ELSE IF ~where.ok THEN "ParserError" ELSE ""]
    /\ UNCHANGED <<ledger_exists, ledger, counter, tables, indexes, opened_on, sessions,
                   origin, query>>

ParseNext == Parse

SpecParse == ParseInit /\ [][ParseNext]_vars

\* ------------------------------------------------------------------ claims
SeqToSet(q) == {q[i] : i \in 1..Len(q)}

\* What read_all returns for the file as it is now.
Entries == read_all(ledger_exists, ledger).entries
Readable == read_all(ledger_exists, ledger).ok

\* The key an entry acts on in table T keyed by K, NULL when it acts on none.
KeyOf(e, T, K) ==
    IF e.table_name # T THEN NULL
    ELSE IF e.operation = "DELETE"
         THEN (IF IsNone(e.old_value) THEN NULL ELSE RowGet(e.old_value[1], K))
         ELSE (IF IsNone(e.new_value) THEN NULL ELSE RowGet(e.new_value[1], K))

\* The rows a replay into a map keyed by primary key ends with: for each key,
\* the new_value of the last entry acting on it, unless that entry is a DELETE.
ReplayedRows(entries, T, K) ==
    {entries[i].new_value[1] :
        i \in {j \in 1..Len(entries) :
                  /\ KeyOf(entries[j], T, K) # NULL
                  /\ entries[j].operation # "DELETE"
                  /\ \A l \in (j + 1)..Len(entries) :
                         ~PyEq(KeyOf(entries[l], T, K), KeyOf(entries[j], T, K))}}

\* C3: for every ledger and every table T keyed by K, the rows that
\* reconstruct_state_with_primary_key(T, K) returns are exactly the rows left by
\* replaying the T entries in file order into a map keyed by primary key
\* (INSERT and UPDATE set state[pk], DELETE removes it, other tables have no
\* effect), one row per key.
C3_ReconstructIsReplay ==
    Readable =>
        \A T \in {"t", "u"} : \A K \in {"id", "a"} :
            LET rows == reconstruct_state_with_primary_key(Entries, T, K) IN
            /\ SeqToSet(rows) = ReplayedRows(Entries, T, K)
            /\ Len(rows) = Cardinality(ReplayedRows(Entries, T, K))

\* A ledger of two tables in which a row of t was inserted, updated and is
\* live, a row of u was inserted, and a DELETE removed a key that was present.
C3_Witness ==
    /\ Readable
    /\ Len(Entries) = 3
    /\ \E i, j \in 1..3 :
           /\ i < j
           /\ Entries[i].table_name = "t" /\ Entries[i].operation = "INSERT"
           /\ KeyOf(Entries[i], "t", "id") = IntV(1)
           /\ Entries[j].table_name = "t" /\ Entries[j].operation = "DELETE"
           /\ KeyOf(Entries[j], "t", "id") = IntV(1)
    /\ \E i \in 1..3 : Entries[i].table_name = "u"
    /\ reconstruct_state_with_primary_key(Entries, "t", "id") = <<>>
    /\ reconstruct_state_with_primary_key(Entries, "u", "id") # <<>>

\* The transaction ids of the entries of a file, and the largest (0 for none).
IdsOf(file) == {file[i].transaction_id : i \in {j \in 1..Len(file) : file[j].kind = "entry"}}
Largest(S) == IF S = {} THEN 0 ELSE CHOOSE m \in S : \A x \in S : x <= m
Increasing(file) ==
    \A i, j \in 1..Len(file) :
        (i < j /\ file[i].kind = "entry" /\ file[j].kind = "entry")
            => file[i].transaction_id < file[j].transaction_id

\* C4: within one session the transaction ids of the appended entries are
\* strictly increasing in append order, and the first one is the largest id
\* in the file at construction (0 for an empty or missing file) plus 1.
C4_SessionIdsIncreaseFromMax ==
    \A i \in (Len(opened_on) + 1)..Len(ledger) :
        /\ ledger[i].kind = "entry"
        /\ \A j \in (Len(opened_on) + 1)..(i - 1) :
               ledger[j].transaction_id < ledger[i].transaction_id
        /\ (i = Len(opened_on) + 1)
               => ledger[i].transaction_id = Largest(IdsOf(opened_on)) + 1

\* A session constructed on a file whose last id is not its largest, with two
\* entries appended since.
C4_Witness ==
    /\ Len(opened_on) >= 2
    /\ opened_on[Len(opened_on)].kind = "entry"
    /\ opened_on[Len(opened_on)].transaction_id < Largest(IdsOf(opened_on))
    /\ Len(ledger) >= Len(opened_on) + 2

\* C5: across consecutive sessions on one untouched file, every appended
\* entry has a transaction id above every id that was in the file before it,
\* so a file whose ids increased at the start keeps pairwise distinct ids
\* that increase in file order.
C5_IdsIncreaseAcrossSessions ==
    /\ \A i \in (Len(origin) + 1)..Len(ledger) :
           \A j \in 1..(i - 1) :
               ledger[j].kind = "entry"
                   => ledger[j].transaction_id < ledger[i].transaction_id
    /\ Increasing(origin) => Increasing(ledger)

\* A second session that has appended, on a file the first session appended to.
C5_Witness ==
    /\ sessions >= 2
    /\ Len(opened_on) > Len(origin)
    /\ Len(ledger) > Len(opened_on)
    /\ origin # <<>>

\* The rows SELECT * FROM tn returns now, and the table's key column.
PkName(tn) == get_primary_key_column(tables[tn]).name
Live(tn) == reconstruct_state_with_primary_key(Entries, tn, PkName(tn))
PkPos(tn) ==
    CHOOSE i \in 1..Len(tables[tn].columns) : tables[tn].columns[i].is_primary_key
ColPos(tn, c) ==
    CHOOSE i \in 1..Len(tables[tn].columns) : tables[tn].columns[i].name = c

\* The indexes of tn hold the live rows of tn and nothing else.
IndexAgrees(tn) ==
    LET rows == SeqToSet(Live(tn))
        pkI == TablePk(indexes, tn)
        uqT == TableUq(indexes, tn)
    IN /\ DOMAIN pkI = {RowGet(r, PkName(tn)) : r \in rows}
       /\ \A r \in rows : pkI[RowGet(r, PkName(tn))] = r
       /\ \A c \in UniqueCols(tables[tn]) :
              DOMAIN ColMap(uqT, c) = {RowGet(r, c) : r \in rows} \ {NULL}

\* C1: in a session started on an empty ledger, after every successful
\* CREATE TABLE, INSERT, UPDATE or DELETE the primary-key index of the
\* affected table maps exactly the keys of the reconstructed rows to those
\* rows, and each unique index holds exactly their non-NULL values.
C1_IndexesMatchReconstruct ==
    (opened_on = <<>> /\ last.ok /\ last.op \in {"CREATE", "INSERT", "UPDATE", "DELETE"})
        => IndexAgrees(last.table)

\* C2: an INSERT, UPDATE or DELETE that fails leaves the ledger, the
\* transaction counter and every index as they were before it started.
C2_FailedStatementChangesNothing ==
    [][(last'.op \in {"INSERT", "UPDATE", "DELETE"} /\ ~last'.ok)
          => /\ ledger' = ledger
             /\ ledger_exists' = ledger_exists
             /\ counter' = counter
             /\ indexes' = indexes]_vars

\* The values pass the arity and type checks of the table.
WellTyped(tn, values) == validate_row_types(values, tables[tn]) = ""

\* C6: after any sequence of statements, an INSERT whose primary-key value
\* is the key of a live row fails with a constraint violation, appends
\* nothing, and SELECT * returns the same rows afterwards.
C6_DuplicateKeyInsertRejected ==
    \A tn \in DOMAIN tables : \A values \in InsertValues(tn) :
        (/\ Readable
         /\ WellTyped(tn, values)
         /\ \E r \in SeqToSet(Live(tn)) : PyEq(RowGet(r, PkName(tn)), values[PkPos(tn)]))
        => LET out == execute_insert(DB, tn, values) IN
           /\ ~out.ok
           /\ out.err = "ConstraintViolationError"
           /\ out.db.file = ledger
           /\ execute_select(out.db, Star, tn, None, <<>>).rows = Live(tn)

\* C7: an INSERT whose non-NULL value in a UNIQUE column equals that column's
\* value in a live row fails with a constraint violation and leaves the rows
\* intact, and an INSERT with a fresh key and fresh unique values succeeds.
C7_DuplicateUniqueInsertRejected ==
    \A tn \in DOMAIN tables : \A values \in InsertValues(tn) :
        (Readable /\ WellTyped(tn, values)) =>
        LET out == execute_insert(DB, tn, values)
            row == build_row_dict(values, tables[tn])
            rows == SeqToSet(Live(tn))
            Held(c) == \E r \in rows : RowGet(row, c) # NULL /\ PyEq(RowGet(r, c), RowGet(row, c))
        IN /\ (\E c \in UniqueCols(tables[tn]) : Held(c))
                => /\ ~out.ok
                   /\ out.err = "ConstraintViolationError"
                   /\ execute_select(out.db, Star, tn, None, <<>>).rows = Live(tn)
           /\ (/\ \A c \in UniqueCols(tables[tn]) \cup {PkName(tn)} : ~Held(c))
                => out.ok

\* C8: after any sequence of successful statements in a session started on
\* an empty ledger, no two reconstructed rows of a table share a non-NULL
\* value in a UNIQUE column.
C8_UniqueColumnsStayUnique ==
    opened_on = <<>> =>
        \A tn \in DOMAIN tables : \A c \in UniqueCols(tables[tn]) :
            \A i, j \in 1..Len(Live(tn)) :
                (i # j /\ RowGet(Live(tn)[i], c) # NULL)
                    => ~PyEq(RowGet(Live(tn)[i], c), RowGet(Live(tn)[j], c))

\* C9: right after a successful INSERT INTO t VALUES (v1..vn), SELECT * FROM t
\* WHERE pk = v_pk returns exactly one row, and that row maps each column of
\* t to the value given at its position.
C9_InsertThenSelectByKey ==
    (last.op = "INSERT" /\ last.ok) =>
        LET tn == last.table
            out == execute_select(DB, Star, tn,
                                  Some(Cond(PkName(tn), "=", last.values[PkPos(tn)])), <<>>)
        IN /\ out.ok
           /\ Len(out.rows) = 1
           /\ DOMAIN out.rows[1] = ColumnNames(tables[tn])
           /\ \A c \in ColumnNames(tables[tn]) :
                  PyEq(out.rows[1][c], last.values[ColPos(tn, c)])

\* A second row was just inserted, its FLOAT column given as the int 1 and
\* stored as the float 1.0, or given as 1.5.
C9_Witness ==
    /\ last.op = "INSERT" /\ last.ok /\ last.table = "t"
    /\ Len(Live("t")) = 2
    /\ \/ last.values[2] = IntV(1)
          /\ \E r \in SeqToSet(Live("t")) :
                 r.id = last.values[1] /\ r.a = FloatV(2) /\ r.b = StrV("x")
       \/ last.values[2] = FloatV(3)

\* C10: an UPDATE that keeps a row's primary key succeeds whenever each
\* UNIQUE column whose value changes gets a value no other live row holds.
C10_UpdateNotBlockedByOwnValues ==
    \A tn \in DOMAIN tables : \A set \in UpdateSets(tn) :
        \A r \in SeqToSet(IF Readable THEN Live(tn) ELSE <<>>) :
            LET new == UpdatedRow(tables[tn], r, set)
                pk == RowGet(r, PkName(tn))
                Fresh(c) ==
                    \/ PyEq(RowGet(new, c), RowGet(r, c))
                    \/ \A o \in SeqToSet(Live(tn)) \ {r} : ~PyEq(RowGet(o, c), RowGet(new, c))
            IN (/\ PyEq(RowGet(new, PkName(tn)), pk)
                /\ \A c \in UniqueCols(tables[tn]) : Fresh(c))
               => execute_update(DB, tn, set, Some(Cond(PkName(tn), "=", pk))).ok

\* The rows SELECT * FROM tn returns once the step is taken.
LiveAfter(tn) ==
    reconstruct_state_with_primary_key(read_all(ledger_exists', ledger').entries,
                                       tn, PkName(tn))

\* The row passes the WHERE clause of a statement (no clause: every row).
Matched(r, where) == IsNone(where) \/ CondHolds(r, where[1])

\* v as a column of type dt stores it.
Stored(v, dt) == IF convert_value(v, dt).ok THEN convert_value(v, dt).v ELSE v

\* The effect of a successful UPDATE that leaves the key column alone.  With
\* asWritten the SET column must equal the value as written in the statement,
\* without it the value converted to the column's declared type.
UpdateEffect(asWritten) ==
    (last'.op = "UPDATE" /\ last'.ok /\ PkName(last'.table) \notin DOMAIN last'.set) =>
        LET tn == last'.table
            pk == PkName(tn)
            before == SeqToSet(Live(tn))
            after == SeqToSet(LiveAfter(tn))
            Given(c) == last'.set[c]
        IN /\ Len(LiveAfter(tn)) = Len(Live(tn))
           /\ {r[pk] : r \in after} = {r[pk] : r \in before}
           /\ \A r \in before : \E n \in after :
                 /\ n[pk] = r[pk]
                 /\ IF Matched(r, last'.where)
                    THEN /\ DOMAIN n = DOMAIN r
                         /\ \A c \in DOMAIN n :
                               IF c \in DOMAIN last'.set
                               THEN IF asWritten THEN PyEq(n[c], Given(c))
                                    ELSE n[c] = Stored(Given(c), get_column(tables[tn], c)[1].data_type)
                               ELSE n[c] = r[c]
                    ELSE n = r

\* C11 (as stated): after a successful UPDATE t SET c = v WHERE cond that does
\* not touch the primary key, every matching row has c equal to v and its other
\* columns unchanged, every other row is unchanged, and the live keys are the
\* same as before.
C11_UpdateSetsGivenValue == [][UpdateEffect(TRUE)]_vars

\* C11 (amended): the same, with c equal to v converted to the declared type
\* of c (SET b = 1 on a TEXT column stores '1').
C11_UpdateSetsConvertedValue == [][UpdateEffect(FALSE)]_vars

\* One of two rows was just updated, its TEXT column set from the number 1.
C11_Witness ==
    /\ last.op = "UPDATE" /\ last.ok /\ last.set = [b |-> IntV(1)]
    /\ ~IsNone(last.where) /\ last.count = 1
    /\ Len(Live("t")) = 2
    /\ \E r \in SeqToSet(Live("t")) : r.id = IntV(1) /\ r.b = StrV("1")
    /\ \E r \in SeqToSet(Live("t")) : r.id = IntV(2) /\ r.b # StrV("1")

\* The lines a step has added to the file.
Added == SubSeq(ledger', Len(ledger) + 1, Len(ledger'))
Grown == Len(ledger') >= Len(ledger) /\ SubSeq(ledger', 1, Len(ledger)) = ledger

\* C12: after a successful DELETE FROM t WHERE cond no row that satisfied cond
\* is live, every other row is live and unchanged, the count is the number of
\* rows that satisfied cond, and each appended entry is a DELETE with the
\* deleted row as old_value and no new_value.
C12_DeleteRemovesMatchingRows ==
    [][(last'.op = "DELETE" /\ last'.ok) =>
        LET tn == last'.table
            gone == {r \in SeqToSet(Live(tn)) : Matched(r, last'.where)}
        IN /\ SeqToSet(LiveAfter(tn)) = SeqToSet(Live(tn)) \ gone
           /\ Len(LiveAfter(tn)) = Len(Live(tn)) - Cardinality(gone)
           /\ last'.count = Cardinality(gone)
           /\ Grown
           /\ Len(Added) = Cardinality(gone)
           /\ {e.old_value : e \in SeqToSet(Added)} = {Some(r) : r \in gone}
           /\ \A e \in SeqToSet(Added) :
                 e.operation = "DELETE" /\ e.table_name = tn /\ e.new_value = None]_vars

\* DELETE ... WHERE id = 1 has just removed one of two rows.
C12_Witness ==
    /\ last.op = "DELETE" /\ last.ok /\ last.count = 1 /\ ~IsNone(last.where)
    /\ Len(Live("t")) = 1
    /\ Live("t")[1].id = IntV(2)

\* C13: a successful INSERT appends exactly one INSERT entry, a successful
\* UPDATE or DELETE with N candidate rows appends exactly N entries of that
\* operation for its table, and SELECT and CREATE TABLE append nothing.
C13_OneEntryPerAffectedRow ==
    [][last'.ok =>
        LET tn == last'.table
            N == IF last'.op = "INSERT" THEN 1
                 ELSE IF last'.op \in {"UPDATE", "DELETE"}
                 THEN Cardinality({r \in SeqToSet(Live(tn)) : Matched(r, last'.where)})
                 ELSE 0
        IN /\ Grown
           /\ Len(Added) = N
           /\ \A e \in SeqToSet(Added) :
                 e.kind = "entry" /\ e.operation = last'.op /\ e.table_name = tn]_vars

\* An UPDATE without WHERE has just rewritten two rows.
C13_Witness ==
    /\ last.op = "UPDATE" /\ last.ok /\ last.count = 2 /\ IsNone(last.where)
    /\ Len(ledger) = 4
    /\ ledger[3].operation = "UPDATE" /\ ledger[4].operation = "UPDATE"

\* C14: whatever statement runs, the entries read_all returned before it are
\* a prefix of the entries read_all returns after it.
C14_LedgerIsAppendOnly ==
    [][LET before == Entries
           after == read_all(ledger_exists', ledger').entries
       IN /\ Len(after) >= Len(before)
          /\ SubSeq(after, 1, Len(before)) = before]_vars

\* A statement has just appended to a ledger that already held two entries.
C14_Witness ==
    /\ last.ok /\ last.op \in {"INSERT", "UPDATE", "DELETE"}
    /\ Len(Entries) >= 3
    /\ Entries[1].operation = "INSERT" /\ Entries[1].transaction_id = 1

\* C19: CREATE TABLE never writes to the ledger or moves the counter; on a
\* new name it registers the table, on a registered name it fails, whatever
\* columns it declares, and leaves definitions, ledger and indexes as they were.
C19_CreateTableWritesNothing ==
    /\ [][last'.op = "CREATE" =>
            /\ ledger' = ledger /\ ledger_exists' = ledger_exists /\ counter' = counter
            /\ IF last'.ok
               THEN /\ last'.table \notin DOMAIN tables
                    /\ DOMAIN tables' = DOMAIN tables \cup {last'.table}
                    /\ \A t \in DOMAIN tables : tables'[t] = tables[t]
                    /\ tables'[last'.table].name = last'.table
                    /\ tables'[last'.table].columns = Schemas[last'.table]
               ELSE /\ last'.table \in DOMAIN tables
                    /\ tables' = tables
                    /\ indexes' = indexes]_vars
    /\ [](\A tn \in DOMAIN tables : \A other \in DOMAIN Schemas :
             LET out == execute_create_table(DB, tn, Schemas[other])
             IN ~out.ok /\ out.db = DB)

\* CREATE TABLE t has just failed on a table that already holds a row.
C19_Witness ==
    /\ last.op = "CREATE" /\ ~last.ok /\ last.table = "t"
    /\ "t" \in DOMAIN tables
    /\ Len(Live("t")) >= 1

\* The pairs of positions (x in the live rows of A, y in the live rows of B)
\* whose rows agree on A.k = B.j.
JoinedPairs(A, B, k, j) ==
    {p \in (1..Len(Live(A))) \X (1..Len(Live(B))) :
        PyEq(RowGet(Live(A)[p[1]], k), RowGet(Live(B)[p[2]], j))}

\* The row a pair merges into, the right row's value winning.
RightWins(a, b) ==
    [c \in DOMAIN a \cup DOMAIN b |-> IF c \in DOMAIN b THEN b[c] ELSE a[c]]

\* C15: SELECT * FROM t INNER JOIN u ON id = k returns one merged row for
\* each pair of live rows with t.id = u.k and none for any other pair, the
\* right row winning on a shared column, whether the ON condition is written
\* id = k or t.id = u.k.
C15_JoinReturnsMatchingPairs ==
    ({"t", "u"} \subseteq DOMAIN tables) =>
        \A clause \in {PlainJoin, QualifiedJoin} :
            LET out == RunSelect(DB, Star, "t", <<clause>>)
                pairs == JoinedPairs("t", "u", "id", "k")
            IN /\ out.ok
               /\ Len(out.rows) = Cardinality(pairs)
               /\ SeqToSet(out.rows)
                    = {RightWins(Live("t")[p[1]], Live("u")[p[2]]) : p \in pairs}

\* C16: SELECT * FROM t JOIN u ON id = k WHERE cond returns the joined rows
\* that satisfy cond.
C16_WhereAfterJoinFiltersJoinedRows ==
    ({"t", "u"} \subseteq DOMAIN tables) =>
        \A w \in {IdIs(1), Cond("k", "=", IntV(2))} :
            LET joined == RunSelect(DB, Star, "t", <<PlainJoin>>)
                out == RunSelect(DB, Star, "t", <<PlainJoin, WhereText(w)>>)
            IN /\ out.ok
               /\ out.rows = SelectSeq(joined.rows, LAMBDA r : CondHolds(r, w))

\* A row passes a WHERE tree: both children of an AND, one child of an OR.
RECURSIVE Passes(_, _)
Passes(row, node) ==
    IF node.type = "AND" THEN Passes(row, node.left) /\ Passes(row, node.right)
    ELSE IF node.type = "OR" THEN Passes(row, node.left) \/ Passes(row, node.right)
    ELSE CondHolds(row, node)

\* C17: SELECT, UPDATE and DELETE with a WHERE tree of AND and OR nodes act
\* on exactly the rows that pass the tree.
C17_WhereTreeIsEvaluated ==
    ("t" \in DOMAIN tables) =>
        \A w \in QueryTrees :
            LET passing == SelectSeq(Live("t"), LAMBDA r : Passes(r, w))
                sel == RunSelect(DB, Star, "t", <<WhereText(w)>>)
                upd == execute_update(DB, "t", [b |-> NULL], Some(w))
                del == execute_delete(DB, "t", Some(w))
            IN /\ sel.ok /\ sel.rows = passing
               /\ upd.ok /\ upd.count = Len(passing)
               /\ del.ok /\ del.count = Len(passing)

\* C18: a condition on a column no row has selects, updates and deletes no
\* row, whatever its operator and value.
C18_AbsentColumnMatchesNothing ==
    ("t" \in DOMAIN tables) =>
        \A w \in AbsentColumnConds :
            LET sel == RunSelect(DB, Star, "t", <<WhereText(w)>>)
                upd == execute_update(DB, "t", [b |-> NULL], Some(w))
                del == execute_delete(DB, "t", Some(w))
            IN /\ sel.rows = <<>>
               /\ upd.db.file = ledger
               /\ del.db.file = ledger

\* What INSERT, SELECT, UPDATE and DELETE on tn would end with now.
StatementsOn(tn) ==
    {execute_insert(DB, tn, values) : values \in SessionInserts}
    \cup {execute_select(DB, Star, tn, w, <<>>) : w \in Wheres}
    \cup {execute_update(DB, tn, set, w) : set \in SessionSets, w \in Wheres}
    \cup {execute_delete(DB, tn, w) : w \in Wheres}

C21_RestartKeepsRowsAndIndexes ==
    [][sessions' # sessions =>
        /\ execute_select(DB', Star, "t", None, <<>>).ok
        /\ execute_select(DB', Star, "t", None, <<>>).rows = Live("t")
        /\ TablePk(indexes', "t") = TablePk(indexes, "t")
        /\ \A c \in UniqueCols(tables["t"]) :
              ColMap(TableUq(indexes', "t"), c) = ColMap(TableUq(indexes, "t"), c)]_vars

\* C22: a second engine, opened on the file on which the engine before it
\* ran and which holds INSERT entries of t, answers SELECT * FROM t with the reconstructed rows of t although no
\* CREATE TABLE t was issued on it.
C22_SecondEngineSelectsWithoutCreate ==
    (/\ sessions >= 2
     /\ Readable
     /\ "t" \notin DOMAIN tables
     /\ \E i \in 1..Len(opened_on) :
           /\ opened_on[i].kind = "entry"
           /\ opened_on[i].table_name = "t"
           /\ opened_on[i].operation = "INSERT")
    => LET out == execute_select(DB, Star, "t", None, <<>>) IN
       /\ out.ok
       /\ out.rows = reconstruct_state_with_primary_key(Entries, "t", "id")

\* C23: every successful statement appends its entries after all the entries
\* already in the ledger, and the entries of one UPDATE or DELETE are
\* contiguous and follow the order in which the matching rows are iterated
\* (the order of the reconstructed rows): the i-th appended entry has the
\* i-th matching row as old_value; an INSERT appends the one inserted row.
C23_EntriesFollowCandidateOrder ==
    [][(last'.ok /\ last'.op \in {"INSERT", "UPDATE", "DELETE"}) =>
        LET tn == last'.table
            candidates == SelectSeq(Live(tn), LAMBDA r : Matched(r, last'.where))
        IN /\ Grown
           /\ last'.op = "INSERT" =>
                 /\ Len(Added) = 1
                 /\ Added[1].operation = "INSERT"
                 /\ Added[1].new_value = Some(build_row_dict(last'.values, tables[tn]))
           /\ last'.op \in {"UPDATE", "DELETE"} =>
                 /\ Len(Added) = Len(candidates)
                 /\ \A i \in 1..Len(Added) :
                       /\ Added[i].operation = last'.op
                       /\ Added[i].table_name = tn
                       /\ Added[i].old_value = Some(candidates[i])]_vars

\* A DELETE without WHERE has just removed two rows, the row of key 1 first.
C23_Witness ==
    /\ last.op = "DELETE" /\ last.ok /\ last.count = 2
    /\ Len(ledger) = 4
    /\ ledger[3].operation = "DELETE" /\ ledger[4].operation = "DELETE"
    /\ ledger[3].old_value[1]["id"] = IntV(1)
    /\ ledger[4].old_value[1]["id"] = IntV(2)

\* A non-NULL value can be assigned to a column of the type: an int to INT,
\* an int or a float to FLOAT, a string to TEXT.
Assignable(v, dt) ==
    \/ dt = "INT" /\ v.ty = "int"
    \/ dt = "FLOAT" /\ v.ty \in {"int", "float"}
    \/ dt = "TEXT" /\ v.ty = "str"

\* The lists of two or three values that break one of the three rules for
\* the columns of table tn.
RejectedInserts(tn) ==
    LET V == {NULL, IntV(1), FloatV(3), StrV("x")}
        cols == tables[tn].columns
    IN {values \in [1..2 -> V] \cup [1..3 -> V] :
           \/ Len(values) # Len(cols)
           \/ \E i \in 1..Len(cols) :
                 \/ values[i] # NULL /\ ~Assignable(values[i], cols[i].data_type)
                 \/ values[i] = NULL /\ cols[i].is_primary_key}

\* C24: an INSERT whose number of values differs from the number of columns,
\* or with a non-NULL value that cannot be assigned to its column's type, or
\* with NULL at the primary-key position, fails, appends nothing to the
\* ledger, consumes no transaction id and leaves the indexes as they were.
C24_BadInsertIsRejected ==
    \A tn \in DOMAIN tables : \A values \in RejectedInserts(tn) :
        LET out == execute_insert(DB, tn, values) IN
        /\ ~out.ok
        /\ out.err \in {"TypeValidationError", "ConstraintViolationError"}
        /\ out.db.file = ledger
        /\ out.db.exists = ledger_exists
        /\ out.db.counter = counter
        /\ out.db.ix = indexes

\* An INSERT of two values into the three columns of t, which holds a row,
\* has just been refused.
C24_Witness ==
    /\ "t" \in DOMAIN tables
    /\ last.op = "INSERT" /\ ~last.ok /\ last.values = <<IntV(1), NULL>>
    /\ last.values \in RejectedInserts("t")
    /\ Len(Live("t")) >= 1

\* C25: right after clear(), whatever the file held, read_all returns the
\* empty sequence, reconstruct returns no rows for table t and for table u,
\* and the entry the next create_entry builds and appends has
\* transaction_id 1.
C25_ClearEmptiesTheLedger ==
    [][~ledger_exists' =>
        LET read == read_all(ledger_exists', ledger')
            next == AppendEntry(DB', "t", "INSERT", None, Some([id |-> IntV(1), a |-> IntV(1)]))
        IN /\ read.ok
           /\ read.entries = <<>>
           /\ \A tn \in {"t", "u"} :
                 reconstruct_state_with_primary_key(read.entries, tn, "id") = <<>>
           /\ Len(next.file) = 1
           /\ next.file[1].transaction_id = 1
           /\ next.counter = 1]_vars

\* The store was constructed on a file holding a line that does not parse,
\* was cleared, and the entry appended since has transaction_id 1.
C25_Witness ==
    /\ opened_on = <<BadLine>>
    /\ ledger_exists
    /\ Len(ledger) = 1
    /\ ledger[1].kind = "entry"
    /\ ledger[1].transaction_id = 1

\* The position in the file of its j-th line that is not blank.
NthLine(file, j) ==
    CHOOSE i \in 1..Len(file) :
        /\ file[i].kind # "blank"
        /\ Cardinality({k \in 1..i : file[k].kind # "blank"}) = j

\* C26: read_all returns the empty list when the file is absent; it fails
\* with an I/O error, returning no entries at all, when some line of the
\* file is malformed (not JSON, or not the JSON of an entry); otherwise it
\* returns the lines of the file that are not blank, in file order.
C26_ReadAllReturnsFileOrder ==
    LET read == read_all(ledger_exists, ledger)
        kept == {i \in 1..Len(ledger) : ledger[i].kind # "blank"}
        malformed == {i \in 1..Len(ledger) : ledger[i].kind \notin {"entry", "blank"}}
    IN /\ ~ledger_exists => read.ok /\ read.entries = <<>>
       /\ (ledger_exists /\ malformed # {}) =>
             ~read.ok /\ read.err = "IOError" /\ read.entries = <<>>
       /\ (ledger_exists /\ malformed = {}) =>
             /\ read.ok
             /\ Len(read.entries) = Cardinality(kept)
             /\ \A j \in 1..Len(read.entries) :
                   read.entries[j] = ledger[NthLine(ledger, j)]

\* C27: in an engine opened on a ledger that already holds entries, with t
\* declared again and rebuild_indexes never called, and with nothing but
\* INSERT entries appended since the engine was opened, an INSERT whose
\* primary key is the key of a row reconstruct returns fails with a
\* constraint violation.
C27_ColdStartRejectsLiveKey ==
    (/\ \E i \in 1..Len(opened_on) : opened_on[i].kind = "entry"
     /\ "t" \in DOMAIN tables
     /\ Readable
     /\ \A i \in (Len(opened_on) + 1)..Len(ledger) : ledger[i].operation = "INSERT")
    => \A values \in SessionInserts :
          (\E i \in 1..Len(Live("t")) : PyEq(Live("t")[i]["id"], values[1]))
          => LET out == execute_insert(DB, "t", values) IN
             ~out.ok /\ out.err = "ConstraintViolationError"

\* C28: after a successful UPDATE that changes the primary key of a row from
\* k to another key k', SELECT * returns no row with primary key k and
\* exactly one row with primary key k', and as many rows as before.
C28_KeyChangeMovesTheRow ==
    [][(/\ last'.op = "UPDATE" /\ last'.ok /\ last'.count = 1
        /\ "id" \in DOMAIN last'.set) =>
        LET tn == last'.table
            moved == SelectSeq(Live(tn), LAMBDA r : Matched(r, last'.where))
            k == moved[1]["id"]
            kNew == Added[1].new_value[1]["id"]
            after == execute_select(DB', Star, tn, None, <<>>)
            WithKey(key) == {i \in 1..Len(after.rows) : PyEq(after.rows[i]["id"], key)}
        IN ~PyEq(k, kNew) =>
              /\ after.ok
              /\ WithKey(k) = {}
              /\ Cardinality(WithKey(kNew)) = 1
              /\ Len(after.rows) = Len(Live(tn))]_vars

\* C29: the entries a statement appends carry the transaction ids that
\* follow the counter one by one, and a statement that fails consumes no
\* transaction id.
C29_TransactionIdsAreDense ==
    [][/\ Grown
       /\ \A i \in 1..Len(Added) : Added[i].transaction_id = counter + i
       /\ ~last'.ok => counter' = counter /\ Added = <<>>]_vars

\* No entry of the ledger carries NULL at the primary-key column of its
\* new_value.
NoNullKeyInLedger ==
    \A i \in 1..Len(ledger) :
        (ledger[i].kind = "entry" /\ ~IsNone(ledger[i].new_value)) =>
            ledger[i].new_value[1]["id"] # NULL

\* The statement just run, on a declared table, is an INSERT with NULL at
\* the primary-key position, or an UPDATE whose SET gives the primary-key
\* column NULL.
InsertsNullKey ==
    /\ last'.op = "INSERT" /\ last'.table \in DOMAIN tables
    /\ Len(last'.values) = Len(tables[last'.table].columns)
    /\ last'.values[PkPos(last'.table)] = NULL
UpdatesKeyToNull ==
    /\ last'.op = "UPDATE" /\ last'.table \in DOMAIN tables
    /\ PkName(last'.table) \in DOMAIN last'.set
    /\ last'.set[PkName(last'.table)] = NULL
Refused == ~last'.ok /\ last'.err = "ConstraintViolationError" /\ ledger' = ledger

\* C30 as stated: no ledger entry carries a NULL primary key in new_value,
\* and every INSERT with a NULL primary key and every UPDATE whose SET
\* assigns NULL to the primary-key column fails with a constraint violation
\* and appends nothing.
C30_NullKeyAlwaysFails ==
    [][/\ NoNullKeyInLedger'
       /\ (InsertsNullKey \/ UpdatesKeyToNull) => Refused]_vars

\* C30, amended: no ledger entry carries a NULL primary key in new_value; an
\* INSERT with a NULL primary key fails with a constraint violation and
\* appends nothing; an UPDATE whose SET assigns NULL to the primary-key
\* column appends nothing, fails with a constraint violation when its WHERE
\* matches at least one row, and succeeds with 0 rows when it matches none.
C30_NullKeyIsNeverWritten ==
    /\ []NoNullKeyInLedger
    /\ [][/\ InsertsNullKey => Refused /\ indexes' = indexes
          /\ UpdatesKeyToNull =>
                /\ ledger' = ledger /\ counter' = counter /\ indexes' = indexes
                /\ IF \E i \in 1..Len(Live(last'.table)) :
                          Matched(Live(last'.table)[i], last'.where)
                   THEN Refused
                   ELSE last'.ok /\ last'.count = 0]_vars

\* UPDATE t SET id = NULL has just been refused on a table that holds rows.
C30_Witness ==
    /\ "t" \in DOMAIN tables
    /\ last.op = "UPDATE" /\ ~last.ok /\ last.err = "ConstraintViolationError"
    /\ last.set = [id |-> NULL]
    /\ Len(Live("t")) >= 1
    /\ NoNullKeyInLedger

\* The rows reconstruct returns for table tn from the file a handler left.
RowsOf(db, tn) ==
    reconstruct_state_with_primary_key(read_all(db.exists, db.file).entries, tn,
                                       get_primary_key_column(db.tables[tn]).name)

\* C31: every live row of t has exactly the declared columns of t as its
\* keys, and on a table that holds a row an UPDATE whose SET names a column
\* the schema does not have fails, appends nothing, and leaves every row
\* with the declared columns.
C31_RowsKeepDeclaredColumns ==
    "t" \in DOMAIN tables =>
        /\ \A i \in 1..Len(Live("t")) : DOMAIN Live("t")[i] = ColumnNames(tables["t"])
        /\ Len(Live("t")) >= 1 =>
              \A w \in Wheres :
                  LET out == execute_update(DB, "t", [zz |-> IntV(1)], w) IN
                  /\ \A i \in 1..Len(RowsOf(out.db, "t")) :
                        DOMAIN RowsOf(out.db, "t")[i] = ColumnNames(tables["t"])
                  /\ Len(Filter(Live("t"), w).rows) >= 1 =>
                        ~out.ok /\ out.db.file = ledger

\* Every value of every row is NULL or assignable to the declared type of
\* its column in table tn.
WellTypedRows(rows, tn) ==
    \A i \in 1..Len(rows) : \A c \in DOMAIN rows[i] :
        LET column == get_column(tables[tn], c) IN
        \/ rows[i][c] = NULL
        \/ ~IsNone(column) /\ Assignable(rows[i][c], column[1].data_type)

\* C32: every value stored in a live row of t is NULL or assignable to the
\* declared type of its column, and stays so after an UPDATE that sets an
\* INT or FLOAT column to a text that is not a number.
C32_StoredValuesFitTheirColumns ==
    "t" \in DOMAIN tables =>
        /\ WellTypedRows(Live("t"), "t")
        /\ \A set \in {[id |-> StrV("x")], [a |-> StrV("x")]} : \A w \in Wheres :
              LET out == execute_update(DB, "t", set, w) IN
              out.ok => WellTypedRows(RowsOf(out.db, "t"), "t")

\* NULL is a key of no unique-column index of any table.
NullIsNoUniqueKey ==
    \A tn \in DOMAIN indexes.uq : \A c \in DOMAIN indexes.uq[tn] :
        ~MapHas(indexes.uq[tn][c], NULL)

\* C33: NULL is never a key of a unique-column index; an INSERT whose unique
\* columns are all NULL fails only when its primary key is the key of a live
\* row, however many live rows hold NULL in those columns; an UPDATE that
\* sets a unique column to NULL succeeds and leaves NULL in that column of
\* every row it matched.
C33_UniqueColumnsAdmitNulls ==
    /\ []NullIsNoUniqueKey
    /\ [][("t" \in DOMAIN tables) =>
            /\ (/\ last'.op = "INSERT" /\ Len(last'.values) = 3
                /\ last'.values[1] # NULL /\ last'.values[1].ty = "int"
                /\ last'.values[2] = NULL /\ last'.values[3] = NULL
                /\ ~last'.ok)
               => \E i \in 1..Len(Live("t")) : PyEq(Live("t")[i]["id"], last'.values[1])
            /\ (last'.op = "UPDATE" /\ last'.set \in {[a |-> NULL], [b |-> NULL]})
               => /\ last'.ok
                  /\ \A i \in 1..Len(LiveAfter("t")) :
                        Matched(LiveAfter("t")[i], last'.where) =>
                            \A c \in DOMAIN last'.set : LiveAfter("t")[i][c] = NULL]_vars

\* UPDATE t SET a = NULL has just succeeded on two rows, one of which held a
\* number in a, and both rows are live with NULL in a.
C33_Witness ==
    /\ "t" \in DOMAIN tables
    /\ last.op = "UPDATE" /\ last.ok /\ last.set = [a |-> NULL] /\ last.count = 2
    /\ Len(Live("t")) = 2
    /\ Live("t")[1]["a"] = NULL /\ Live("t")[2]["a"] = NULL
    /\ \E i \in 1..Len(ledger) :
          ledger[i].operation = "UPDATE" /\ ledger[i].old_value[1]["a"] # NULL
    /\ NullIsNoUniqueKey

\* Equality in which NULL equals NULL and nothing else.
EqualWithNull(x, y) ==
    IF x = NULL \/ y = NULL THEN x = NULL /\ y = NULL ELSE PyEq(x, y)

\* The values a condition compares the columns of t with.
ComparedValues == {NULL, IntV(1), FloatV(3), StrV("x")}

\* C34: SELECT * FROM t WHERE c op v returns, for =, the rows whose value of
\* c equals v with NULL equal to NULL only, for !=, the other rows, and for
\* <, <=, >, >= no row at all when v is NULL and never a row whose value of
\* c is NULL.
C34_NullInComparisons ==
    ("t" \in DOMAIN tables) =>
        \A c \in {"id", "a", "b"} : \A v \in ComparedValues :
            \A op \in {"=", "!=", "<", "<=", ">", ">="} :
                LET out == execute_select(DB, Star, "t", Some(Cond(c, op, v)), <<>>)
                    equal == SelectSeq(Live("t"), LAMBDA r : EqualWithNull(r[c], v))
                    other == SelectSeq(Live("t"), LAMBDA r : ~EqualWithNull(r[c], v))
                IN CASE op = "=" -> out.ok /\ out.rows = equal
                     [] op = "!=" -> out.ok /\ out.rows = other
                     [] OTHER ->
                          /\ v = NULL => out.ok /\ out.rows = <<>>
                          /\ out.ok => \A i \in 1..Len(out.rows) : out.rows[i][c] # NULL

\* Of the two live rows of t one holds NULL in a and one a number: WHERE
\* a = NULL returns the first, WHERE a != NULL the second, WHERE a >= NULL
\* none, and WHERE a < 2 only the second.
C34_Witness ==
    /\ "t" \in DOMAIN tables
    /\ Len(Live("t")) = 2
    /\ Live("t")[1]["a"] = NULL /\ Live("t")[2]["a"] # NULL
    /\ execute_select(DB, Star, "t", Some(Cond("a", "=", NULL)), <<>>).rows = <<Live("t")[1]>>
    /\ execute_select(DB, Star, "t", Some(Cond("a", "!=", NULL)), <<>>).rows = <<Live("t")[2]>>
    /\ execute_select(DB, Star, "t", Some(Cond("a", ">=", NULL)), <<>>).rows = <<>>
    /\ execute_select(DB, Star, "t", Some(Cond("a", "<", IntV(2))), <<>>).rows = <<Live("t")[2]>>

\* The rows reconstruct returns for t from a file.
Reconstructed(exists, file) ==
    reconstruct_state_with_primary_key(read_all(exists, file).entries, "t", "id")

\* The engine after the step answers SELECT * FROM t, with each WHERE of the
\* inputs, as the engine before the step does, and reconstruct returns the
\* same rows.
SameAnswers ==
    /\ \A w \in Wheres :
          LET before == execute_select(DB, Star, "t", w, <<>>)
              after == execute_select(DB', Star, "t", w, <<>>)
          IN after.ok = before.ok /\ after.rows = before.rows
    /\ Reconstructed(ledger_exists', ledger') = Reconstructed(ledger_exists, ledger)

\* C35: a SELECT leaves the ledger file, the transaction counter, the schema
\* registry and the indexes as they were, and the same SELECT run again
\* right after it returns the same rows; a new engine on the same file that
\* declares the same schema gets from every SELECT and from reconstruct the
\* rows the engine before it got.
C35_SelectIsReadOnlyAndRepeatable ==
    [][/\ last'.op = "SELECT" =>
             /\ ledger' = ledger /\ ledger_exists' = ledger_exists
             /\ counter' = counter /\ tables' = tables /\ indexes' = indexes
             /\ SameAnswers
       /\ sessions' # sessions => SameAnswers]_vars

\* In the second engine, after the restart, a SELECT with a WHERE has just
\* returned one of the two rows the first engine wrote.
C35_Witness ==
    /\ sessions = 2
    /\ last.op = "SELECT" /\ last.ok /\ last.count = 1 /\ ~IsNone(last.where)
    /\ Len(Reconstructed(ledger_exists, ledger)) = 2
    /\ Len(ledger) = Len(opened_on)

\* The positions in the ledger file of the INSERT entries of table t whose
\* new_value has the primary key k.
InsertsOf(k) ==
    {i \in 1..Len(ledger) :
        /\ ledger[i].kind = "entry" /\ ledger[i].table_name = "t"
        /\ ledger[i].operation = "INSERT" /\ ~IsNone(ledger[i].new_value)
        /\ PyEq(ledger[i].new_value[1]["id"], k)}
FirstInsertOf(k) == CHOOSE i \in InsertsOf(k) : \A j \in InsertsOf(k) : i <= j

\* C36: the rows reconstruct returns for t come in the order of the file
\* positions of the first INSERT entry of their primary keys, rows updated
\* or deleted and inserted again included.
C36_RowsInFirstInsertOrder ==
    Readable =>
        LET rows == Reconstructed(ledger_exists, ledger) IN
        \A i, j \in 1..Len(rows) :
            (i < j /\ InsertsOf(rows[i]["id"]) # {} /\ InsertsOf(rows[j]["id"]) # {})
                => FirstInsertOf(rows[i]["id"]) < FirstInsertOf(rows[j]["id"])

\* The k-th condition written in the text, as a CONDITION node, and the
\* k-th connective; a condition takes three tokens.
Written(k) ==
    LET p == 2 + 4 * (k - 1)
        symbol == query[p + 1].value
        token == query[p + 2]
        value == CASE token.type = "NULL" -> NULL
                   [] token.type = "STRING" -> StrV(token.value)
                   [] token.value = "1" -> IntV(1)
                   [] OTHER -> FloatV(3)
    IN [type |-> "CONDITION", column |-> query[p].value, operator |-> symbol,
        value |-> value]
Connective(k) == query[1 + 4 * k].type

\* C37: the tree the parser builds binds AND tighter than OR and both to the
\* left: a AND b OR c gives OR(AND(a, b), c), a OR b AND c gives
\* OR(a, AND(b, c)), a AND b AND c gives AND(AND(a, b), c), a OR b OR c gives
\* OR(OR(a, b), c), and every leaf is a CONDITION node with the column, the
\* operator and the value written.
C37_AndBindsTighterThanOr ==
    (last.op = "SELECT" /\ Len(query) \in {4, 8, 12}) =>
        /\ last.ok
        /\ last.where =
             Some(CASE Len(query) = 4 -> Written(1)
                    [] Len(query) = 8 ->
                         [type |-> Connective(1), left |-> Written(1), right |-> Written(2)]
                    [] Connective(1) = "OR" /\ Connective(2) = "AND" ->
                         [type |-> "OR", left |-> Written(1),
                          right |-> [type |-> "AND", left |-> Written(2),
                                     right |-> Written(3)]]
                    [] OTHER ->
                         [type |-> Connective(2),
                          left |-> [type |-> Connective(1), left |-> Written(1),
                                    right |-> Written(2)],
                          right |-> Written(3)])

\* The text WHERE id = 1 OR a > 1.5 AND b != 'x' was parsed into an OR node
\* whose left is a condition and whose right is an AND node.
C37_Witness ==
    /\ last.op = "SELECT" /\ last.ok
    /\ Len(query) = 12
    /\ query[5].type = "OR" /\ query[9].type = "AND"
    /\ query[2].value = "id" /\ query[6].value = "a" /\ query[10].value = "b"
    /\ last.where[1].type = "OR"
    /\ last.where[1].left = Cond("id", "=", IntV(1))
    /\ last.where[1].right.type = "AND"
    /\ last.where[1].right.right = Cond("b", "!=", StrV("x"))

\* The kinds of error the caller of execute can tell apart.
ErrorKinds ==
    {"Parse error", "Schema error", "Type error", "Constraint violation", "I/O error"}

\* C38: a statement that fails is surfaced to the caller of execute as an
\* error, the error's kind is one of parse error, schema error, type error,
\* constraint violation and I/O error, and a lexical or syntactic failure is
\* a parse error.
C38_FailuresAreSurfacedByKind ==
    ~last.ok =>
        /\ Surface(last.err).raised
        /\ Surface(last.err).prefix \in ErrorKinds
        /\ last.err \in {"SyntaxError", "ParserError"} =>
              Surface(last.err).prefix = "Parse error"

\* Lists of rows of t handed to rebuild_indexes: none, one row, two rows,
\* two rows with the same key, a row without a key.
RebuildRow(id, a, b) == [id |-> id, a |-> a, b |-> b]
RebuildRows ==
    {<<>>,
     <<RebuildRow(IntV(1), NULL, NULL)>>,
     <<RebuildRow(IntV(3), FloatV(3), StrV("x")), RebuildRow(IntV(1), NULL, StrV("y"))>>,
     <<RebuildRow(IntV(1), FloatV(3), NULL), RebuildRow(IntV(1), FloatV(2), NULL)>>,
     <<RebuildRow(NULL, FloatV(3), StrV("x")), RebuildRow(IntV(2), FloatV(3), NULL)>>}

\* The last row of rows that holds v in column c.
LastWith(rows, c, v) ==
    rows[CHOOSE i \in 1..Len(rows) :
            /\ rows[i][c] = v
            /\ \A j \in (i + 1)..Len(rows) : rows[j][c] # v]

\* C39: whatever the indexes hold, rebuild_indexes(t, rows) leaves the
\* primary-key index of t mapping the non-NULL keys of rows to their rows
\* (the last row of a key), each unique index of t mapping the non-NULL
\* values of its column in rows to their rows, and nothing else (an index
\* that was never created counts as empty); the indexes of the other tables
\* are the same as before; and a second call with the same rows changes
\* nothing.
C39_RebuildReplacesTheIndexes ==
    \A rows \in RebuildRows :
        LET table == [name |-> "t", columns |-> Schemas["t"]]
            after == rebuild_indexes(indexes, table, rows)
            pk == TablePk(after, "t")
        IN /\ DOMAIN pk = {rows[i]["id"] : i \in 1..Len(rows)} \ {NULL}
           /\ \A k \in DOMAIN pk : pk[k] = LastWith(rows, "id", k)
           /\ \A c \in {"a", "b"} :
                 LET uq == ColMap(TableUq(after, "t"), c) IN
                 /\ DOMAIN uq = {rows[i][c] : i \in 1..Len(rows)} \ {NULL}
                 /\ \A v \in DOMAIN uq : uq[v] = LastWith(rows, c, v)
           /\ DOMAIN after.pk \ {"t"} = DOMAIN indexes.pk \ {"t"}
           /\ DOMAIN after.uq \ {"t"} = DOMAIN indexes.uq \ {"t"}
           /\ \A x \in DOMAIN indexes.pk \ {"t"} : after.pk[x] = indexes.pk[x]
           /\ \A x \in DOMAIN indexes.uq \ {"t"} : after.uq[x] = indexes.uq[x]
           /\ rebuild_indexes(after, table, rows) = after

\* The indexes hold key 2 for t and a key for u; rebuilding t from the one
\* row of key 1 leaves key 1 alone in t's index and u's index as it was.
C39_Witness ==
    /\ "t" \in DOMAIN indexes.pk /\ "u" \in DOMAIN indexes.pk
    /\ MapHas(indexes.pk["t"], IntV(2))
    /\ DOMAIN indexes.pk["u"] # {}
    /\ LET after == rebuild_indexes(indexes, [name |-> "t", columns |-> Schemas["t"]],
                                    <<RebuildRow(IntV(1), NULL, NULL)>>)
       IN /\ DOMAIN after.pk["t"] = {IntV(1)}
          /\ after.pk["u"] = indexes.pk["u"]

====
